---- MODULE Spec2Model ----
(***************************************************************************)
(* Model of claude-history-sync: the sync command (runSync), the delta     *)
(* extractor, the content-hash comparison and the sync-state store.        *)
(*                                                                         *)
(* Spec       : repeated runs of runSync over a small directory of         *)
(*              append-only log files, a remote API and a state file.      *)
(* SpecCancel : one run of runSync with the cancellation signal.           *)
(* SpecDelta  : CalculateDelta / extractNewMessages as pure functions over *)
(*              bounded file contents and watermarks.                      *)
(* SpecState  : SyncState.Save step by step and LoadState, with the JSON   *)
(*              encoding of the state file.                                *)
(* SpecRetry  : the retry loop of the API client, Client.doWithRetry.      *)
(* SpecHash   : CalculateFileHash and the line parsing as functions of     *)
(*              bounded file contents.                                     *)
(* SpecScan   : ScanForJSONL on bounded directory trees.                   *)
(* SpecLogin  : Manager.Login on the credential store, with the            *)
(*              interactive flow, the keyring, the token file and the clock.*)
(* SpecRace   : two overlapping runs of runSync on one state path.         *)
(* SpecTokens : the credential store (FallbackStore over the keychain and  *)
(*              the token file) and Manager.GetValidToken on it.           *)
(* SpecNormalize : CalculateDelta and CalculateFileHash on lines of the     *)
(*              structured and the legacy shape.                           *)
(* SpecPoll   : DeviceFlow.PollForToken against a token endpoint.          *)
(***************************************************************************)
EXTENDS Integers, Sequences, FiniteSets, TLC

VARIABLES
    pc,            \* position of runSync: auth, load, scan, fetch, listed, hash, delta, sync,
                   \* handle, save, done
    runs,          \* number of the current run; doubles as the clock read by time.Now()
    runErr,        \* the error runSync returned ("" while running or on success)
    flen,          \* flen[i]: number of lines currently in log file i (files only grow)
    stateFile,     \* content of the state file on disk
    state,         \* runSync's in-memory SyncState.Sessions
    files,         \* result of ScanForJSONL
    remoteHashes,  \* session -> hash map built from GetConversations
    conversationsList,  \* what GetConversations returned, until the map is built
    idx,           \* 1-based index of the file the loop is at
    synced, skipped, errors,   \* runSync's counters
    localHash,     \* result of the last CalculateFileHash call
    delta,         \* result of the last CalculateDelta call
    resp,          \* result of the last apiClient.Sync call
    visited,       \* history: indices of the files whose loop body ran, in order
    saves,         \* history: calls of state.Save in this run
    fetches,       \* history: calls of GetConversations in this run
    confirmed,     \* history: per session, uuids of the uploads confirmed successful
    saveFailed,    \* history: some run ended with its state unsaved (failed save, crash after an upload)
    cancelled,     \* the run's context is cancelled (SIGINT or SIGTERM arrived)
    dLines, dLast, dOpen, dOut, dNew, dPhase,  \* SpecDelta: inputs and results
    sPc,           \* SpecState: position of the Save / LoadState caller
    sMem,          \* SpecState: the SyncState.Sessions being saved
    sPrev,         \* SpecState: the file at the state path when Save was called
    sTarget,       \* SpecState: the file at the state path
    sTmp,          \* SpecState: the file at the state path + ".tmp"
    sData,         \* SpecState: the bytes MarshalIndent produced
    sErr,          \* SpecState: the error Save returned ("" for nil)
    sLoaded,       \* SpecState: the result of LoadState
    qPc,           \* SpecRetry: position of doWithRetry
    qAttempt,      \* SpecRetry: the loop variable attempt
    qRequests,     \* SpecRetry: history, outcomes of the doRequest calls in order
    qLastErr,      \* SpecRetry: the variable lastErr
    qErr,          \* SpecRetry: what doWithRetry returned
    qCancelled,    \* SpecRetry: ctx.Done() is closed
    hLines,        \* SpecHash: the lines of the file given to CalculateFileHash
    hOpen,         \* SpecHash: whether the file can be opened and read
    hPc,           \* SpecHash: input, once, twice (calls of CalculateFileHash made)
    hFirst,        \* SpecHash: the result of the first call
    hSecond,       \* SpecHash: the result of the second call, on the same file
    hDelta,        \* SpecHash: the result of CalculateDelta on the same file, no watermark
    wBase,         \* SpecScan: the directory ScanForJSONL is called on
    wRoot,         \* SpecScan: the directory tree found there
    wPatterns,     \* SpecScan: the exclude patterns
    wPc,           \* SpecScan: input, scanned, checked
    wFiles,        \* SpecScan: the files ScanForJSONL returned
    wErr,          \* SpecScan: whether ScanForJSONL returned an error
    wRun,          \* SpecScan: what runSync did with the result: "aborted" or "loop"
    aPc,           \* SpecLogin: position of Login: idle, new, auth, valid, flow, save, returned
    aForce,        \* SpecLogin: the force argument of the current call
    aBefore,       \* SpecLogin: history, keychain, token file and clock when Login was called
    aFlows,        \* SpecLogin: history, calls of StartAuthFlow in the current call
    aResp,         \* SpecLogin: the TokenResponse of the flow
    aErr,          \* SpecLogin: the error Login returned ("" for nil)
    aCalls,        \* SpecLogin: number of calls of Login so far
    cPc,           \* SpecRace: per run, its position: load, loop, write, rename, done
    cMem,          \* SpecRace: per run, its in-memory SyncState.Sessions
    cData,         \* SpecRace: per run, the bytes MarshalIndent produced
    cFd,           \* SpecRace: per run, the inode its open descriptor refers to (0: none)
    cInodes,       \* SpecRace: the content of each inode
    cNames,        \* SpecRace: the inode at the state path and at the state path + ".tmp"
    cAdvanced,     \* SpecRace: history, per run, the watermarks it advanced
    cErr,          \* SpecRace: per run, the error runSync returned ("" for nil)
    tPrimary,      \* SpecTokens: per process, FallbackStore.primary is not nil
    tUsingFile,    \* SpecTokens: per process, FallbackStore.usingFile
    tKeychain,     \* SpecTokens: the items of the service in the keychain
    tFile,         \* SpecTokens: the token file
    tNow,          \* SpecTokens: the clock, in seconds
    tTouched,      \* SpecTokens: history, the last step called the keyring
    tRes,          \* SpecTokens: what the last step returned to the command, if it returned
    tIssued,       \* SpecTokens: number of token responses issued so far
    tCall,         \* SpecTokens: per process, the call in progress and its local variables
    oPc,           \* SpecPoll: position of PollForToken: off, wait, poll, returned
    oInterval,     \* SpecPoll: the variable interval
    oPeriod,       \* SpecPoll: the period of the ticker (0: not created yet)
    oPolls,        \* SpecPoll: history, the responses of exchangeDeviceCode in order
    oDone,         \* SpecPoll: ctx.Done() is closed
    oRes           \* SpecPoll: what PollForToken returned

runVars == <<pc, runs, runErr, flen, stateFile, state, files, remoteHashes,
             conversationsList, idx,
             synced, skipped, errors, localHash, delta, resp,
             visited, saves, fetches, confirmed, saveFailed, cancelled>>
deltaVars == <<dLines, dLast, dOpen, dOut, dNew, dPhase>>
storeVars == <<sPc, sMem, sPrev, sTarget, sTmp, sData, sErr, sLoaded>>
retryVars == <<qPc, qAttempt, qRequests, qLastErr, qErr, qCancelled>>
hashVars == <<hLines, hOpen, hPc, hFirst, hSecond, hDelta>>
scanVars == <<wBase, wRoot, wPatterns, wPc, wFiles, wErr, wRun>>
loginVars == <<aPc, aForce, aBefore, aFlows, aResp, aErr, aCalls>>
raceVars == <<cPc, cMem, cData, cFd, cInodes, cNames, cAdvanced, cErr>>
tokenVars == <<tPrimary, tUsingFile, tKeychain, tFile, tNow, tTouched, tRes, tIssued,
              tCall>>
pollVars == <<oPc, oInterval, oPeriod, oPolls, oDone, oRes>>
moreVars == <<tokenVars, pollVars>>
auxVars == <<hashVars, scanVars, loginVars, raceVars, moreVars>>
vars == <<runVars, deltaVars, storeVars, retryVars, auxVars>>

----------------------------------------------------------------------------
\* Bounds of the model.

\* Largest number of lines a log file grows to.
MaxLen == 2
\* Number of runSync runs explored.
MaxRuns == 2
\* Longest file content given to CalculateDelta in SpecDelta and to
\* CalculateFileHash in SpecHash.
MaxLines == 3
\* Largest number of sessions in a state given to Save in SpecState.
MaxSessions == 2
\* Largest number of exclude patterns given to ScanForJSONL in SpecScan.
MaxPatterns == 1
\* Number of calls of Login explored in SpecLogin.
MaxLogins == 2

----------------------------------------------------------------------------
\* Log lines and messages.

\* A line holding no bytes.
EmptyLine == [kind |-> "empty"]

\* A line that is not valid JSON.
Malformed == [kind |-> "malformed"]

\* A part of a content array: its "type" member ("" when absent or not a
\* string) and its "text" member; hasText is whether "text" is a string.
Part(type, text) == [type |-> type, text |-> text, hasText |-> TRUE]
PartWithoutText(type) == [type |-> type, text |-> "", hasText |-> FALSE]

\* The "message" member of a line: absent, present but not a JSON object, or an
\* object.  role and model are "" when the member is absent or not a string;
\* content is a string, or an array of parts (parts # <<>>).
NoMessage == [shape |-> "absent", role |-> "", text |-> "", parts |-> <<>>, model |-> ""]
MessageNotObject == [shape |-> "other", role |-> "", text |-> "", parts |-> <<>>, model |-> ""]
MessageObject(role, text, parts, model) ==
    [shape |-> "object", role |-> role, text |-> text, parts |-> parts, model |-> model]

\* A line holding a JSON object: its top-level members ("" or 0 when absent).
JSONLine(uuid, timestamp, type, msg, role, content, model, tokens) ==
    [kind |-> "json", UUID |-> uuid, Timestamp |-> timestamp, Type |-> type, Msg |-> msg,
     Role |-> role, Content |-> content, Model |-> model, Tokens |-> tokens]

\* A well-formed line in the legacy flat shape.
LegacyLine(uuid, role, content) ==
    JSONLine(uuid, "", "", NoMessage, role, content, "", 0)

\* A well-formed line in the structured shape written by Claude Code.
StructuredLine(uuid, timestamp, type, msg) ==
    JSONLine(uuid, timestamp, type, msg, "", "", "", 0)

\* The Message struct.
Message(uuid, timestamp, role, content, model, type, tokens) ==
    [UUID |-> uuid, Timestamp |-> timestamp, Role |-> role, Content |-> content,
     Model |-> model, Type |-> type, Tokens |-> tokens]

\* ToMessage's absent result.
NilMessage == Message("", "", "", "", "", "", 0)

\* Variant: the last text part is used.
RECURSIVE FirstTextPart_last(_)
FirstTextPart_last(parts) ==
    IF parts = <<>> THEN ""
    ELSE IF FirstTextPart_last(Tail(parts)) # "" THEN FirstTextPart_last(Tail(parts))
    ELSE IF Head(parts).type = "text" /\ Head(parts).hasText THEN Head(parts).text
    ELSE ""

\* textParts[0] of ToMessage: the text of the first part that has the type
\* "text" and a string as its text, "" if there is none.
RECURSIVE FirstTextPart(_)
FirstTextPart(parts) ==
    IF parts = <<>> THEN ""
    ELSE IF Head(parts).type = "text" /\ Head(parts).hasText THEN Head(parts).text
    ELSE FirstTextPart(Tail(parts))

\* ClaudeCodeMessage.ToMessage; NilMessage stands for the nil result (every
\* other result has a non-empty UUID).
ToMessage(line) ==
    IF line.UUID = "" \/ line.Msg.shape # "object" THEN NilMessage
    ELSE Message(line.UUID, line.Timestamp, line.Msg.role,
                 IF line.Msg.parts = <<>> THEN line.Msg.text ELSE FirstTextPart(line.Msg.parts),
                 line.Msg.model, line.Type, 0)

\* Variant: the legacy decoding accepts a line without a role.
ParseLine_noRoleCheck(line) ==
    IF line.kind # "json" THEN <<>>
    ELSE LET cc == ToMessage(line)
             legacy == Message(line.UUID, line.Timestamp, line.Role, line.Content,
                               line.Model, line.Type, line.Tokens)
         IN  IF line.Msg.shape # "other" /\ cc.UUID # "" /\ cc.Role # ""
             THEN <<cc>>
             ELSE IF legacy.UUID = "" THEN <<>>
             ELSE <<legacy>>

\* Variant: the legacy decoding is tried first.
ParseLine_legacyFirst(line) ==
    IF line.kind # "json" THEN <<>>
    ELSE LET cc == ToMessage(line)
             legacy == Message(line.UUID, line.Timestamp, line.Role, line.Content,
                               line.Model, line.Type, line.Tokens)
         IN  IF legacy.UUID # "" /\ legacy.Role # "" THEN <<legacy>>
             ELSE IF line.Msg.shape # "other" /\ cc.UUID # "" /\ cc.Role # ""
             THEN <<cc>>
             ELSE <<>>

\* The body of the line loop for one line: the messages (none or one) it
\* appends.  An empty line and a line that is not valid JSON append nothing;
\* the structured decoding is tried first (it fails when "message" is not an
\* object), then the legacy decoding of the same line.
ParseLine(line) ==
    IF line.kind # "json" THEN <<>>
    ELSE LET cc == ToMessage(line)
             legacy == Message(line.UUID, line.Timestamp, line.Role, line.Content,
                               line.Model, line.Type, line.Tokens)
         IN  IF line.Msg.shape # "other" /\ cc.UUID # "" /\ cc.Role # ""
             THEN <<cc>>
             ELSE IF legacy.UUID = "" \/ legacy.Role = "" THEN <<>>
             ELSE <<legacy>>

\* Variant: a line that appends no message ends the reading of the file.
RECURSIVE ReadMessages_stopAtBadLine(_)
ReadMessages_stopAtBadLine(lines) ==
    IF lines = <<>> THEN <<>>
    ELSE IF ParseLine(Head(lines)) = <<>> THEN <<>>
    ELSE ParseLine(Head(lines)) \o ReadMessages_stopAtBadLine(Tail(lines))

\* The line loop of CalculateDelta and CalculateFileHash: each line's messages
\* in file order.
RECURSIVE ReadMessages(_)
ReadMessages(lines) ==
    IF lines = <<>> THEN <<>>
    ELSE ParseLine(Head(lines)) \o ReadMessages(Tail(lines))

----------------------------------------------------------------------------
\* Delta extraction.

\* The for loop of extractNewMessages from position i (1-based) on.
RECURSIVE scanFrom(_, _, _)
scanFrom(messages, lastSyncedUUID, i) ==
    IF i > Len(messages) THEN messages
    ELSE IF messages[i].UUID = lastSyncedUUID
         THEN IF i < Len(messages)
              THEN SubSeq(messages, i + 1, Len(messages))
              ELSE <<>>
         ELSE scanFrom(messages, lastSyncedUUID, i + 1)

\* Variant: the slice starts at the watermark message itself.
RECURSIVE scanFrom_inclusive(_, _, _)
scanFrom_inclusive(messages, lastSyncedUUID, i) ==
    IF i > Len(messages) THEN messages
    ELSE IF messages[i].UUID = lastSyncedUUID
         THEN SubSeq(messages, i, Len(messages))
         ELSE scanFrom_inclusive(messages, lastSyncedUUID, i + 1)

extractNewMessages_inclusive(messages, lastSyncedUUID) ==
    IF lastSyncedUUID = "" THEN messages
    ELSE scanFrom_inclusive(messages, lastSyncedUUID, 1)

\* Variant: a watermark that is not found yields nothing instead of everything.
extractNewMessages_noResync(messages, lastSyncedUUID) ==
    IF lastSyncedUUID = "" THEN messages
    ELSE IF \E i \in DOMAIN messages : messages[i].UUID = lastSyncedUUID
         THEN scanFrom(messages, lastSyncedUUID, 1)
         ELSE <<>>

\* Variant: the search stops at the last message with the watermark's uuid.
extractNewMessages_lastMatch(messages, lastSyncedUUID) ==
    IF lastSyncedUUID = "" THEN messages
    ELSE LET hits == {i \in DOMAIN messages : messages[i].UUID = lastSyncedUUID}
         IN  IF hits = {} THEN messages
             ELSE LET i == CHOOSE k \in hits : \A j \in hits : j <= k
                  IN  SubSeq(messages, i + 1, Len(messages))

extractNewMessages(messages, lastSyncedUUID) ==
    IF lastSyncedUUID = "" THEN messages
    ELSE scanFrom(messages, lastSyncedUUID, 1)

\* Results of CalculateDelta: an error, nil (no new messages) or a Delta.
DeltaError == [err |-> TRUE]
NilDelta == [err |-> FALSE, isNil |-> TRUE]

NewDelta(file, newMessages) ==
    [err |-> FALSE, isNil |-> FALSE,
     SessionID |-> file.SessionID,
     ProjectPath |-> file.ProjectPath,
     Messages |-> newMessages,
     NewLastUUID |-> newMessages[Len(newMessages)].UUID]

\* Variant: without the check for an empty result.
CalculateDelta_emptyDelta(file, lines, openOk, lastSyncedUUID) ==
    IF ~openOk THEN DeltaError
    ELSE LET newMessages == extractNewMessages(ReadMessages(lines), lastSyncedUUID)
         IN  IF Len(newMessages) = 0
             THEN [err |-> FALSE, isNil |-> FALSE,
                   SessionID |-> file.SessionID, ProjectPath |-> file.ProjectPath,
                   Messages |-> <<>>, NewLastUUID |-> ""]
             ELSE NewDelta(file, newMessages)

\* CalculateDelta on a file holding `lines`; openOk is whether os.Open and the
\* line scanner succeed.
CalculateDelta(file, lines, openOk, lastSyncedUUID) ==
    IF ~openOk THEN DeltaError
    ELSE LET newMessages == extractNewMessages(ReadMessages(lines), lastSyncedUUID)
         IN  IF Len(newMessages) = 0 THEN NilDelta
             ELSE NewDelta(file, newMessages)

----------------------------------------------------------------------------
\* Content hash.

\* The absent hash: the empty string of the Go code.
EmptyHash == <<>>

\* SHA-256 as an injective function of the hashed text.
CalculateContentHash(content) == <<"sha256", content>>

\* A member of a JSON object as written, and a JSON text: an object is the
\* sequence of its members in the order they are written.
Member(key, value) == [key |-> key, value |-> value]

\* The keys of the metadata map in byte order, the order sort.Strings gives.
SortedKeys ==
    <<"endTime", "messageCount", "models", "projectPath", "sessionId",
      "startTime", "timestamp", "totalTokens", "userId">>

\* json.Marshal of a map[string]interface{}: the entries are written sorted
\* by key, whatever the order of the map literal that built the map.
MarshalMap(entries) ==
    LET keys == {entries[i].key : i \in DOMAIN entries}
        ordered == SelectSeq(SortedKeys, LAMBDA k : k \in keys)
    IN  [i \in 1..Len(ordered) |->
            entries[CHOOSE j \in DOMAIN entries : entries[j].key = ordered[i]]]

\* json.Marshal of a Message: the struct's fields in declared order, the
\* omitempty fields left out when they hold their zero value.
MarshalMessage(msg) ==
    <<Member("uuid", msg.UUID), Member("timestamp", msg.Timestamp),
      Member("role", msg.Role), Member("content", msg.Content)>>
    \o (IF msg.Model = "" THEN <<>> ELSE <<Member("model", msg.Model)>>)
    \o (IF msg.Type = "" THEN <<>> ELSE <<Member("type", msg.Type)>>)
    \o (IF msg.Tokens = 0 THEN <<>> ELSE <<Member("tokens", msg.Tokens)>>)

\* The orders in which ranging over a map with the keys S can yield them: Go
\* leaves the iteration order of a map unspecified and randomises it.
MapRangeOrders(S) ==
    {order \in [1..Cardinality(S) -> S] :
        \A i, j \in 1..Cardinality(S) : order[i] = order[j] => i = j}

\* extractModels: the slices it can return.
extractModels(messages) ==
    LET modelSet == {messages[i].Model : i \in DOMAIN messages} \ {""}
    IN  IF modelSet = {} THEN {<<"unknown">>} ELSE MapRangeOrders(modelSet)

RECURSIVE calculateTotalTokens(_)
calculateTotalTokens(messages) ==
    IF messages = <<>> THEN 0
    ELSE Head(messages).Tokens + calculateTotalTokens(Tail(messages))

\* The metadata map literal of CalculateFileHash, entries in the order the
\* literal lists them.
HashMetadata(file, messages, models) ==
    <<Member("sessionId", file.SessionID),
      Member("userId", ""),
      Member("projectPath", file.ProjectPath),
      Member("timestamp", messages[1].Timestamp),
      Member("startTime", messages[1].Timestamp),
      Member("endTime", messages[Len(messages)].Timestamp),
      Member("messageCount", Len(messages)),
      Member("models", models),
      Member("totalTokens", calculateTotalTokens(messages))>>

\* The loop joining the lines: a "\n" before every line but the first.  The
\* text is the sequence of its lines and separators.
RECURSIVE JoinLines(_)
JoinLines(lines) ==
    IF Len(lines) <= 1 THEN lines
    ELSE <<Head(lines), "\n">> \o JoinLines(Tail(lines))

\* The text CalculateFileHash hashes, for the slice extractModels returned.
HashContent(file, messages, models) ==
    JoinLines(<<MarshalMap(HashMetadata(file, messages, models))>>
              \o [i \in DOMAIN messages |-> MarshalMessage(messages[i])])

\* Results of CalculateFileHash.
HashError == [err |-> TRUE]

\* CalculateFileHash on a file holding `lines`: the results the call can
\* have, one for each order extractModels can return.  openOk is whether
\* os.Open and the line scanner succeed.
CalculateFileHash(file, lines, openOk) ==
    IF ~openOk THEN {HashError}
    ELSE LET messages == ReadMessages(lines)
         IN  IF Len(messages) = 0 THEN {HashError}
             ELSE {[err |-> FALSE,
                    hash |-> CalculateContentHash(HashContent(file, messages, models))] :
                   models \in extractModels(messages)}

\* Variant: the hashes are never compared.
ConversationNeedsSync_always(lHash, rHash) == TRUE

\* Variant: a session the server does not list counts as up to date.
ConversationNeedsSync_absentIsSynced(lHash, rHash) ==
    IF rHash = EmptyHash THEN FALSE ELSE lHash # rHash

ConversationNeedsSync(lHash, rHash) ==
    IF rHash = EmptyHash THEN TRUE ELSE lHash # rHash

----------------------------------------------------------------------------
\* Sync state store.

\* A SyncState.Sessions map: a function from the session ids it holds.
EmptySessions == <<>>

SessionState(lastUUID, at, messageCount) ==
    [LastSyncedUUID |-> lastUUID, LastSyncAt |-> at, MessageCount |-> messageCount]

\* Variant: the stored watermark is not read.
GetLastSyncedUUID_forget(sessions, sessionID) == ""

GetLastSyncedUUID(sessions, sessionID) ==
    IF sessionID \in DOMAIN sessions THEN sessions[sessionID].LastSyncedUUID ELSE ""

\* Variant: the message count accumulates over uploads.
UpdateSession_accumulate(sessions, sessionID, lastUUID, messageCount, now) ==
    [s \in DOMAIN sessions \cup {sessionID} |->
        IF s = sessionID
        THEN SessionState(lastUUID, now,
                          messageCount + (IF s \in DOMAIN sessions
                                          THEN sessions[s].MessageCount + 1 ELSE 1))
        ELSE sessions[s]]

UpdateSession(sessions, sessionID, lastUUID, messageCount, now) ==
    [s \in DOMAIN sessions \cup {sessionID} |->
        IF s = sessionID THEN SessionState(lastUUID, now, messageCount)
        ELSE sessions[s]]

\* Strings of the model that are not valid UTF-8: a session id with the byte
\* 0xFF in it (a file name can hold any byte but '/' and NUL).
InvalidUTF8 == {"s<FF>"}

\* What json.Marshal writes for a string: invalid bytes become U+FFFD.
ToValidUTF8(str) == IF str \in InvalidUTF8 THEN "s<U+FFFD>" ELSE str

\* The session ids of the model in byte order, the order in which json.Marshal
\* writes the keys of a map.
KeyOrder == <<"s1", "s2", "s<U+FFFD>", "s<FF>">>

\* The JSON null in the place of the sessions object.
JSONNull == [null |-> TRUE, members |-> <<>>]

\* json.MarshalIndent of the Sessions map: the members of a JSON object, in key
\* order, keys and string values coerced to valid UTF-8.
MarshalSessions(sessions) ==
    LET keys == SelectSeq(KeyOrder, LAMBDA k : k \in DOMAIN sessions)
    IN  [null |-> FALSE,
         members |->
            [i \in DOMAIN keys |->
                [key |-> ToValidUTF8(keys[i]),
                 value |-> [last_synced_uuid |->
                                ToValidUTF8(sessions[keys[i]].LastSyncedUUID),
                            last_sync_at |-> sessions[keys[i]].LastSyncAt,
                            message_count |-> sessions[keys[i]].MessageCount]]]]

\* json.Unmarshal into the Sessions map: null leaves the map nil; of two
\* members with the same key the later one stays.
UnmarshalSessions(json) ==
    LET m == json.members
    IN  [isNil |-> json.null,
         map |-> [k \in {m[i].key : i \in DOMAIN m} |->
                    LET i == CHOOSE n \in DOMAIN m :
                                 /\ m[n].key = k
                                 /\ \A j \in DOMAIN m : m[j].key = k => j <= n
                    IN  SessionState(m[i].value.last_synced_uuid,
                                     m[i].value.last_sync_at,
                                     m[i].value.message_count)]]

\* The state file: absent, unparseable, cut short, or the JSON text of a
\* SyncState.
AbsentFile == [kind |-> "absent"]
CorruptFile == [kind |-> "corrupt"]
PartialFile == [kind |-> "partial"]
SavedFile(sessions, now) ==
    [kind |-> "ok", Sessions |-> MarshalSessions(sessions), LastSyncAt |-> now]

\* A well-formed state file whose "sessions" member is null or missing.
NullSessionsFile == [kind |-> "ok", Sessions |-> JSONNull, LastSyncAt |-> 0]

\* Variant: a missing state file is an error.
LoadState_absentIsError(file) ==
    IF file.kind = "ok"
    THEN LET sessions == UnmarshalSessions(file.Sessions)
         IN  [err |-> FALSE,
              Sessions |-> IF sessions.isNil THEN EmptySessions ELSE sessions.map]
    ELSE [err |-> TRUE]

\* Variant: an unparseable state file is taken for a fresh state.
LoadState_lenient(file) ==
    IF file.kind = "ok" THEN [err |-> FALSE, Sessions |-> UnmarshalSessions(file.Sessions).map]
    ELSE [err |-> FALSE, Sessions |-> EmptySessions]

\* LoadState: a missing file is a fresh state, an unparseable one an error.
LoadState(file) ==
    IF file.kind = "absent" THEN [err |-> FALSE, Sessions |-> EmptySessions]
    ELSE IF file.kind # "ok" THEN [err |-> TRUE]
    ELSE LET sessions == UnmarshalSessions(file.Sessions)
         IN  [err |-> FALSE,
              Sessions |-> IF sessions.isNil THEN EmptySessions ELSE sessions.map]

----------------------------------------------------------------------------
\* The directory that is scanned, and the remote API.

\* The log files under the scan root, in the order filepath.Walk visits them.
\* The first and the third have the same file name in different project
\* directories, hence the same SessionID.
AllFiles ==
    << [Path |-> "/p/s1.jsonl", ProjectPath |-> "/p", SessionID |-> "s1"],
       [Path |-> "/p/s2.jsonl", ProjectPath |-> "/p", SessionID |-> "s2"],
       [Path |-> "/q/s1.jsonl", ProjectPath |-> "/q", SessionID |-> "s1"] >>

SessionIDs == {AllFiles[i].SessionID : i \in DOMAIN AllFiles}

\* What each file holds once fully written; uuids are unique within a file.
FullLines ==
    << <<LegacyLine("a1", "user", "x"), LegacyLine("a2", "assistant", "y")>>,
       <<LegacyLine("b1", "user", "x"), LegacyLine("b2", "assistant", "y"),
         LegacyLine("b3", "user", "x"), LegacyLine("b4", "assistant", "y")>>,
       <<Malformed, LegacyLine("c1", "user", "x")>> >>

\* The lines file i holds now.
FileLines(i) == SubSeq(FullLines[i], 1, flen[i])

\* ScanForJSONL on a readable root: every log file, in walk order.
ScanForJSONL == AllFiles

\* What ScanForJSONL can return.  Its walk callback answers every error the
\* walk hands it with SkipDir or nil, so the walk returns no error: a root that
\* cannot be read yields no file and no error.
ScanResults ==
    {[err |-> FALSE, files |-> ScanForJSONL], [err |-> FALSE, files |-> <<>>]}

\* Hashes the server may list for a session: none, or the hash of the current
\* content of a file of that session.
ListableHashes(sessionID) ==
    {EmptyHash} \cup
    {r.hash : r \in {h \in UNION {CalculateFileHash(AllFiles[i], FileLines(i), TRUE) :
                                       i \in {j \in DOMAIN AllFiles :
                                                AllFiles[j].SessionID = sessionID}} :
                          ~h.err}}

\* remoteHashes after a GetConversations that succeeded; a session the server
\* does not list reads as the empty hash.
RemoteListings ==
    {h \in [SessionIDs -> UNION {ListableHashes(s) : s \in SessionIDs}] :
        \A s \in SessionIDs : h[s] \in ListableHashes(s)}

\* remoteHashes after a GetConversations that failed.
NoListing == [s \in SessionIDs |-> EmptyHash]

\* What doRequest leaves in a result pointer when the body of a 2xx answer is
\* the JSON value null: the nil pointer, with no error.
NilResponse == [err |-> FALSE, nil |-> TRUE]

\* What apiClient.GetConversations can return: an error, a listing (written as
\* the map runSync builds from it), or the nil response.  With the context
\* cancelled the call fails.
ConversationListings(ctxDone) ==
    {[err |-> TRUE]} \cup
    (IF ctxDone THEN {}
     ELSE {[err |-> FALSE, hashes |-> h] : h \in RemoteListings} \cup {NilResponse})

\* A local variable of runSync that holds nothing yet.
Unset == [unset |-> TRUE]

UUIDsOf(messages) == {messages[k].UUID : k \in DOMAIN messages}

\* Results of apiClient.Sync for a request with these messages, sent to a
\* server that holds the uuids in held: an error, a response {success,
\* processed}, or the nil response.  A server that accepts the request reports
\* as processed the messages it did not hold yet: all of them unless the
\* request sends some again.
SyncResults(messages, held) ==
    {[err |-> TRUE]} \cup
    {[err |-> FALSE, Success |-> TRUE,
      Processed |-> Cardinality(UUIDsOf(messages) \ held)]} \cup
    {[err |-> FALSE, Success |-> FALSE, Processed |-> 0]} \cup
    {NilResponse}

----------------------------------------------------------------------------
\* runSync.

history == <<visited, saves, fetches, confirmed, saveFailed>>
counters == <<synced, skipped, errors>>
locals == <<localHash, delta, resp>>

InitRun ==
    /\ pc = "auth"
    /\ runs = 1
    /\ runErr = ""
    /\ flen = [i \in DOMAIN AllFiles |-> 0]
    /\ stateFile = AbsentFile
    /\ state = EmptySessions
    /\ files = <<>>
    /\ remoteHashes = NoListing
    /\ conversationsList = Unset
    /\ idx = 0
    /\ synced = 0 /\ skipped = 0 /\ errors = 0
    /\ localHash = Unset /\ delta = Unset /\ resp = Unset
    /\ visited = <<>>
    /\ saves = 0 /\ fetches = 0
    /\ confirmed = [s \in SessionIDs |-> {}]
    /\ saveFailed = FALSE
    /\ cancelled = FALSE

\* The state store and the retry loop when they are not the thing under study.
StoreOff ==
    /\ sPc = "off" /\ sMem = EmptySessions
    /\ sPrev = AbsentFile /\ sTarget = AbsentFile /\ sTmp = AbsentFile
    /\ sData = Unset /\ sErr = "" /\ sLoaded = Unset

RetryOff ==
    /\ qPc = "off" /\ qAttempt = 0 /\ qRequests = <<>>
    /\ qLastErr = Unset /\ qErr = Unset /\ qCancelled = FALSE

HashOff ==
    /\ hLines = <<>> /\ hOpen = TRUE /\ hPc = "off"
    /\ hFirst = Unset /\ hSecond = Unset /\ hDelta = Unset

ScanOff ==
    /\ wBase = <<>> /\ wRoot = Unset /\ wPatterns = <<>> /\ wPc = "off"
    /\ wFiles = <<>> /\ wErr = FALSE /\ wRun = ""

LoginOff ==
    /\ aPc = "off" /\ aForce = FALSE /\ aBefore = Unset
    /\ aFlows = 0 /\ aResp = Unset /\ aErr = "" /\ aCalls = 0

RaceOff ==
    /\ cPc = <<>> /\ cMem = <<>> /\ cData = <<>> /\ cFd = <<>>
    /\ cInodes = <<>> /\ cNames = Unset /\ cAdvanced = <<>> /\ cErr = <<>>

TokensOff ==
    /\ tPrimary = Unset /\ tUsingFile = Unset /\ tKeychain = Unset /\ tFile = Unset
    /\ tNow = 0 /\ tTouched = FALSE /\ tRes = Unset /\ tIssued = 0
    /\ tCall = Unset

PollOff ==
    /\ oPc = "off" /\ oInterval = 0 /\ oPeriod = 0 /\ oPolls = <<>>
    /\ oDone = FALSE /\ oRes = Unset

MoreOff ==
    /\ TokensOff
    /\ PollOff

AuxOff ==
    /\ HashOff
    /\ ScanOff
    /\ LoginOff
    /\ RaceOff
    /\ MoreOff

Init ==
    /\ InitRun
    /\ dLines = <<>> /\ dLast = "" /\ dOpen = TRUE
    /\ dOut = Unset /\ dNew = <<>> /\ dPhase = "off"
    /\ StoreOff
    /\ RetryOff
    /\ AuxOff

\* runSync returns err before the file loop.
Abort(err) ==
    /\ pc' = "done"
    /\ runErr' = err

\* runSync dereferences a nil response: the process panics and exits, with
\* nothing saved.
Panic ==
    /\ pc' = "done"
    /\ runErr' = "panic"

\* Variant: the loop is left after the first file that ends its iteration early.
Advance_break ==
    /\ idx' = idx + 1
    /\ pc' = "save"

\* The loop moves on to the next file, or leaves for the final save.
Advance ==
    /\ idx' = idx + 1
    /\ pc' = IF idx + 1 > Len(files) THEN "save" ELSE "hash"

\* Variant: a failed GetValidToken is reported but the run goes on.
Authenticate_proceeds ==
    /\ pc = "auth"
    /\ \E ok \in BOOLEAN :
          IF ok THEN pc' = "load" /\ runErr' = runErr
          ELSE pc' = "load" /\ runErr' = "auth"
    /\ UNCHANGED <<runs, flen, stateFile, state, files, remoteHashes, conversationsList, idx,
                   counters, locals, history, cancelled, deltaVars, storeVars, retryVars, auxVars>>

\* authManager.GetValidToken at the start of the run.
Authenticate ==
    /\ pc = "auth"
    /\ \E ok \in BOOLEAN :
          IF ok THEN pc' = "load" /\ runErr' = runErr
          ELSE Abort("auth")
    /\ UNCHANGED <<runs, flen, stateFile, state, files, remoteHashes, conversationsList, idx,
                   counters, locals, history, cancelled, deltaVars, storeVars, retryVars, auxVars>>

\* sync.LoadState(statePath).
LoadStateStep ==
    /\ pc = "load"
    /\ LET r == LoadState(stateFile)
       IN  IF r.err THEN Abort("state") /\ state' = state
           ELSE pc' = "scan" /\ runErr' = runErr /\ state' = r.Sessions
    /\ UNCHANGED <<runs, flen, stateFile, files, remoteHashes, conversationsList, idx,
                   counters, locals, history, cancelled, deltaVars, storeVars, retryVars, auxVars>>

\* runSync's call of sync.ScanForJSONL and its error check.
Scan ==
    /\ pc = "scan"
    /\ \E r \in ScanResults :
          IF r.err THEN Abort("scan") /\ files' = files
          ELSE pc' = "fetch" /\ runErr' = runErr /\ files' = r.files
    /\ UNCHANGED <<runs, flen, stateFile, state, remoteHashes, conversationsList, idx,
                   counters, locals, history, cancelled, deltaVars, storeVars, retryVars, auxVars>>

\* apiClient.GetConversations: the call, up to its return.
FetchConversations ==
    /\ pc = "fetch"
    /\ \E listing \in ConversationListings(cancelled) : conversationsList' = listing
    /\ pc' = "listed"
    /\ fetches' = fetches + 1
    /\ UNCHANGED <<runs, runErr, flen, stateFile, state, files, remoteHashes, idx,
                   counters, locals, visited, saves, confirmed, saveFailed,
                   cancelled, deltaVars, storeVars, retryVars, auxVars>>

\* runSync from the error check of GetConversations to the loop: an error is
\* replaced by a listing of nothing, and the remoteHashes map is built.
BuildRemoteHashes ==
    /\ pc = "listed"
    /\ IF conversationsList = NilResponse
       THEN /\ Panic
            /\ UNCHANGED <<remoteHashes, conversationsList, idx>>
       ELSE /\ remoteHashes' = IF conversationsList.err THEN NoListing
                               ELSE conversationsList.hashes
            /\ conversationsList' = Unset
            /\ idx' = 1
            /\ pc' = IF Len(files) = 0 THEN "save" ELSE "hash"
            /\ runErr' = runErr
    /\ UNCHANGED <<runs, flen, stateFile, state, files, counters, locals,
                   visited, saves, fetches, confirmed, saveFailed,
                   cancelled, deltaVars, storeVars, retryVars, auxVars>>

\* Variant: a file that cannot be hashed goes on to the delta extraction.
HashStep_errorProceeds(openOk) ==
    LET file == files[idx]
    IN  /\ pc = "hash"
        /\ \E h \in CalculateFileHash(file, FileLines(idx), openOk) :
              /\ visited' = Append(visited, file.Path)
              /\ localHash' = h
              /\ delta' = Unset /\ resp' = Unset
              /\ IF h.err
                 THEN pc' = "delta" /\ UNCHANGED <<idx, skipped, errors>>
                 ELSE IF ~ConversationNeedsSync(h.hash, remoteHashes[file.SessionID])
                      THEN skipped' = skipped + 1 /\ errors' = errors /\ Advance
                      ELSE pc' = "delta" /\ UNCHANGED <<idx, skipped, errors>>
              /\ UNCHANGED <<runs, runErr, flen, stateFile, state, files, remoteHashes, conversationsList,
                             synced, saves, fetches, confirmed,
                             saveFailed, cancelled, deltaVars, storeVars, retryVars, auxVars>>

\* Loop body up to the hash comparison, for a given outcome of opening the file.
HashStep(openOk) ==
    LET file == files[idx]
    IN  /\ pc = "hash"
        /\ \E h \in CalculateFileHash(file, FileLines(idx), openOk) :
              /\ visited' = Append(visited, file.Path)
              /\ localHash' = h
              /\ delta' = Unset /\ resp' = Unset
              /\ IF h.err
                 THEN errors' = errors + 1 /\ skipped' = skipped /\ Advance
                 ELSE IF ~ConversationNeedsSync(h.hash, remoteHashes[file.SessionID])
                      THEN skipped' = skipped + 1 /\ errors' = errors /\ Advance
                      ELSE pc' = "delta" /\ UNCHANGED <<idx, skipped, errors>>
              /\ UNCHANGED <<runs, runErr, flen, stateFile, state, files, remoteHashes, conversationsList,
                             synced, saves, fetches, confirmed,
                             saveFailed, cancelled, deltaVars, storeVars, retryVars, auxVars>>

HashFile == \E openOk \in BOOLEAN : HashStep(openOk)

\* Variant: a file without new messages is counted as an error.
DeltaStep_nilCounted(openOk) ==
    LET file == files[idx]
        lastUUID == GetLastSyncedUUID(state, file.SessionID)
        d == CalculateDelta(file, FileLines(idx), openOk, lastUUID)
    IN  /\ pc = "delta"
        /\ delta' = d
        /\ IF d.err THEN errors' = errors + 1 /\ Advance
           ELSE IF d.isNil THEN errors' = errors + 1 /\ Advance
           ELSE pc' = "sync" /\ UNCHANGED <<idx, errors>>
        /\ UNCHANGED <<runs, runErr, flen, stateFile, state, files, remoteHashes, conversationsList,
                       synced, skipped, localHash, resp,
                       visited, saves, fetches, confirmed, saveFailed,
                       cancelled, deltaVars, storeVars, retryVars, auxVars>>

\* Loop body from the watermark lookup to the built request.
DeltaStep(openOk) ==
    LET file == files[idx]
        lastUUID == GetLastSyncedUUID(state, file.SessionID)
        d == CalculateDelta(file, FileLines(idx), openOk, lastUUID)
    IN  /\ pc = "delta"
        /\ delta' = d
        /\ IF d.err THEN errors' = errors + 1 /\ Advance
           ELSE IF d.isNil THEN errors' = errors /\ Advance
           ELSE pc' = "sync" /\ UNCHANGED <<idx, errors>>
        /\ UNCHANGED <<runs, runErr, flen, stateFile, state, files, remoteHashes, conversationsList,
                       synced, skipped, localHash, resp,
                       visited, saves, fetches, confirmed, saveFailed,
                       cancelled, deltaVars, storeVars, retryVars, auxVars>>

DeltaFile == \E openOk \in BOOLEAN : DeltaStep(openOk)

\* Variant: the watermark advances whether or not the upload failed.
SyncStep_errorAdvances(r) ==
    LET file == files[idx]
    IN  /\ pc = "handle"
        /\ IF r.err
           THEN /\ errors' = errors + 1
                /\ state' = UpdateSession(state, file.SessionID,
                                          delta.NewLastUUID, 0, runs)
                /\ Advance
                /\ UNCHANGED <<synced, confirmed, runErr, saveFailed>>
           ELSE IF r = NilResponse
           THEN /\ Panic
                /\ saveFailed' = (saveFailed \/ synced > 0)
                /\ UNCHANGED <<state, synced, confirmed, errors, idx>>
           ELSE IF r.Success
           THEN /\ state' = UpdateSession(state, file.SessionID,
                                          delta.NewLastUUID, r.Processed, runs)
                /\ synced' = synced + 1
                /\ confirmed' = [confirmed EXCEPT ![delta.SessionID] =
                                     @ \cup UUIDsOf(delta.Messages)]
                /\ Advance
                /\ UNCHANGED <<errors, runErr, saveFailed>>
           ELSE Advance /\ UNCHANGED <<state, synced, confirmed, errors, runErr, saveFailed>>
        /\ UNCHANGED <<runs, flen, stateFile, files, remoteHashes, conversationsList,
                       skipped, locals,
                       visited, saves, fetches, cancelled, deltaVars, storeVars, retryVars, auxVars>>

\* The handling of the result r of apiClient.Sync: the test of err, the
\* read of resp.Success (a panic on the nil response) and the update.  The
\* context is not looked at.
SyncStep(r) ==
    LET file == files[idx]
    IN  /\ pc = "handle"
        /\ IF r.err
           THEN /\ errors' = errors + 1
                /\ Advance
                /\ UNCHANGED <<state, synced, confirmed, runErr, saveFailed>>
           ELSE IF r = NilResponse
           THEN /\ Panic
                /\ saveFailed' = (saveFailed \/ synced > 0)
                /\ UNCHANGED <<state, synced, confirmed, errors, idx>>
           ELSE IF r.Success
           THEN /\ state' = UpdateSession(state, file.SessionID,
                                          delta.NewLastUUID, r.Processed, runs)
                /\ synced' = synced + 1
                /\ confirmed' = [confirmed EXCEPT ![delta.SessionID] =
                                     @ \cup UUIDsOf(delta.Messages)]
                /\ Advance
                /\ UNCHANGED <<errors, runErr, saveFailed>>
           ELSE Advance /\ UNCHANGED <<state, synced, confirmed, errors, runErr, saveFailed>>
        /\ UNCHANGED <<runs, flen, stateFile, files, remoteHashes, conversationsList,
                       skipped, locals,
                       visited, saves, fetches, cancelled, deltaVars, storeVars, retryVars, auxVars>>

\* The result of the call is handled.
HandleSync == pc = "handle" /\ SyncStep(resp)

\* Variant: the upload goes through whether or not the context is cancelled.
SyncFile_ignoresCancel ==
    /\ pc = "sync"
    /\ \E r \in SyncResults(delta.Messages, confirmed[delta.SessionID]) : resp' = r
    /\ pc' = "handle"
    /\ UNCHANGED <<runs, runErr, flen, stateFile, state, files, remoteHashes, conversationsList, idx,
                   counters, localHash, delta, history, cancelled,
                   deltaVars, storeVars, retryVars, auxVars>>

\* apiClient.Sync returns.  Called with the context cancelled it returns an
\* error; a signal that comes once the response was read does not change what
\* it returns.
SyncFile ==
    /\ pc = "sync"
    /\ \E r \in SyncResults(delta.Messages, confirmed[delta.SessionID]) :
          /\ cancelled => r.err
          /\ resp' = r
    /\ pc' = "handle"
    /\ UNCHANGED <<runs, runErr, flen, stateFile, state, files, remoteHashes, conversationsList, idx,
                   counters, localHash, delta, history, cancelled,
                   deltaVars, storeVars, retryVars, auxVars>>

\* Variant: per-file errors make the run fail.
SaveStep_failOnFileErrors(ok) ==
    /\ pc = "save"
    /\ saves' = saves + 1
    /\ IF ok
       THEN /\ stateFile' = SavedFile(state, runs)
            /\ runErr' = IF errors > 0 THEN "files" ELSE ""
            /\ saveFailed' = saveFailed
       ELSE stateFile' = stateFile /\ runErr' = "save" /\ saveFailed' = TRUE
    /\ pc' = "done"
    /\ remoteHashes' = NoListing
    /\ conversationsList' = Unset
    /\ localHash' = Unset /\ delta' = Unset /\ resp' = Unset
    /\ UNCHANGED <<runs, flen, state, files, idx, counters,
                   visited, fetches, confirmed, cancelled, deltaVars, storeVars, retryVars, auxVars>>

\* Variant: the state is saved only when no file failed.
SaveStep_onlyIfClean(ok) ==
    /\ pc = "save"
    /\ IF errors > 0
       THEN UNCHANGED <<saves, stateFile, runErr, saveFailed>>
       ELSE /\ saves' = saves + 1
            /\ IF ok
               THEN stateFile' = SavedFile(state, runs) /\ runErr' = ""
                    /\ saveFailed' = saveFailed
               ELSE stateFile' = stateFile /\ runErr' = "save" /\ saveFailed' = TRUE
    /\ pc' = "done"
    /\ remoteHashes' = NoListing
    /\ conversationsList' = Unset
    /\ localHash' = Unset /\ delta' = Unset /\ resp' = Unset
    /\ UNCHANGED <<runs, flen, state, files, idx, counters,
                   visited, fetches, confirmed, cancelled, deltaVars, storeVars, retryVars, auxVars>>

\* state.Save(statePath) after the loop, and the return of runSync, which ends
\* the life of the loop's variables and of the remote hash map.
SaveStep(ok) ==
    /\ pc = "save"
    /\ saves' = saves + 1
    /\ IF ok
       THEN stateFile' = SavedFile(state, runs) /\ runErr' = "" /\ saveFailed' = saveFailed
       ELSE stateFile' = stateFile /\ runErr' = "save" /\ saveFailed' = TRUE
    /\ pc' = "done"
    /\ remoteHashes' = NoListing
    /\ conversationsList' = Unset
    /\ localHash' = Unset /\ delta' = Unset /\ resp' = Unset
    /\ UNCHANGED <<runs, flen, state, files, idx, counters,
                   visited, fetches, confirmed, cancelled, deltaVars, storeVars, retryVars, auxVars>>

SaveState == \E ok \in BOOLEAN : SaveStep(ok)

\* The command is started again (by cron or by hand).
NextRun ==
    /\ pc = "done"
    /\ runs < MaxRuns
    /\ runs' = runs + 1
    /\ pc' = "auth"
    /\ runErr' = ""
    /\ state' = EmptySessions
    /\ files' = <<>>
    /\ remoteHashes' = NoListing
    /\ conversationsList' = Unset
    /\ idx' = 0
    /\ synced' = 0 /\ skipped' = 0 /\ errors' = 0
    /\ localHash' = Unset /\ delta' = Unset /\ resp' = Unset
    /\ visited' = <<>>
    /\ saves' = 0 /\ fetches' = 0
    /\ cancelled' = FALSE
    /\ UNCHANGED <<flen, stateFile, confirmed, saveFailed, deltaVars, storeVars, retryVars, auxVars>>

\* SIGINT or SIGTERM arrives while runSync is running: ctx is cancelled.
Cancel ==
    /\ pc # "done"
    /\ ~cancelled
    /\ cancelled' = TRUE
    /\ UNCHANGED <<pc, runs, runErr, flen, stateFile, state, files, remoteHashes, conversationsList,
                   idx, counters, locals, history, deltaVars, storeVars, retryVars, auxVars>>

\* The log writer appends a line to file i. A run reads file i only in its
\* hash and delta steps, so an append matters by whether it comes before the
\* run, between those two reads, or after them.
AppendLine(i) ==
    /\ pc = "auth" \/ (pc = "delta" /\ i = idx)
    /\ flen[i] < MaxLen /\ flen[i] < Len(FullLines[i])
    /\ flen' = [flen EXCEPT ![i] = @ + 1]
    /\ UNCHANGED <<pc, runs, runErr, stateFile, state, files, remoteHashes, conversationsList, idx,
                   counters, locals, history, cancelled, deltaVars, storeVars, retryVars, auxVars>>

\* Between runs the state file is damaged.
DamageStateFile ==
    /\ pc = "auth"
    /\ stateFile.kind = "ok"
    /\ stateFile' = CorruptFile
    /\ UNCHANGED <<pc, runs, runErr, flen, state, files, remoteHashes, conversationsList, idx,
                   counters, locals, history, cancelled, deltaVars, storeVars, retryVars, auxVars>>

Next ==
    \/ Authenticate
    \/ LoadStateStep
    \/ Scan
    \/ FetchConversations
    \/ BuildRemoteHashes
    \/ HashFile
    \/ DeltaFile
    \/ SyncFile
    \/ HandleSync
    \/ SaveState
    \/ NextRun
    \/ \E i \in DOMAIN AllFiles : AppendLine(i)
    \/ DamageStateFile

Spec == Init /\ [][Next]_vars

----------------------------------------------------------------------------
\* One run of runSync with the cancellation signal.

\* Entries an earlier run can have left for a session: the watermark on the
\* k-th message of one of the session's files, all k messages processed.
EarlierEntries(sessionID) ==
    UNION {{SessionState(ReadMessages(FileLines(i))[k].UUID, MaxRuns - 1, k) :
               k \in DOMAIN ReadMessages(FileLines(i))} :
           i \in {j \in DOMAIN AllFiles : AllFiles[j].SessionID = sessionID}}

\* State files an earlier run can have left, given what the log files hold.
EarlierStateFiles ==
    {AbsentFile} \cup
    UNION {{SavedFile(sessions, MaxRuns - 1) :
               sessions \in {f \in [D -> UNION {EarlierEntries(sid) : sid \in D}] :
                                 \A sid \in D : f[sid] \in EarlierEntries(sid)}} :
           D \in SUBSET SessionIDs}

InitCancel ==
    /\ pc = "auth"
    /\ runs = MaxRuns
    /\ runErr = ""
    /\ flen \in {f \in [DOMAIN AllFiles -> 0..MaxLen] :
                    \A i \in DOMAIN AllFiles : f[i] <= Len(FullLines[i])}
    /\ stateFile \in EarlierStateFiles
    /\ state = EmptySessions
    /\ files = <<>>
    /\ remoteHashes = NoListing
    /\ conversationsList = Unset
    /\ idx = 0
    /\ synced = 0 /\ skipped = 0 /\ errors = 0
    /\ localHash = Unset /\ delta = Unset /\ resp = Unset
    /\ visited = <<>>
    /\ saves = 0 /\ fetches = 0
    /\ confirmed = [s \in SessionIDs |-> {}]
    /\ saveFailed = FALSE
    /\ cancelled = FALSE
    /\ dLines = <<>> /\ dLast = "" /\ dOpen = TRUE
    /\ dOut = Unset /\ dNew = <<>> /\ dPhase = "off"
    /\ StoreOff
    /\ RetryOff
    /\ AuxOff

NextCancel ==
    \/ Authenticate
    \/ LoadStateStep
    \/ Scan
    \/ FetchConversations
    \/ BuildRemoteHashes
    \/ HashFile
    \/ DeltaFile
    \/ SyncFile
    \/ HandleSync
    \/ SaveState
    \/ Cancel

SpecCancel == InitCancel /\ [][NextCancel]_vars

----------------------------------------------------------------------------
\* CalculateDelta and extractNewMessages on bounded inputs.

\* The file CalculateDelta is called on.
DeltaFileInfo == [Path |-> "/test/test-session.jsonl", ProjectPath |-> "/test",
                  SessionID |-> "test-session"]

\* Lines a file may hold: empty, not JSON, without uuid, without role, and
\* messages over three uuids with two contents (so that a uuid can repeat).
DeltaLines ==
    {EmptyLine, Malformed, LegacyLine("", "user", "x"), LegacyLine("msg-1", "", "x")} \cup
    {LegacyLine(u, "user", c) : u \in {"msg-1", "msg-2", "msg-3"}, c \in {"x", "y"}}

\* Watermarks: none, a uuid of the file, a uuid no file holds.
DeltaWatermarks == {"", "msg-1", "msg-2", "msg-3", "unknown"}

SeqsUpTo(S, n) == UNION {[1..k -> S] : k \in 0..n}

InitDelta ==
    /\ InitRun
    /\ dLines \in SeqsUpTo(DeltaLines, MaxLines)
    /\ dLast \in DeltaWatermarks
    /\ dOpen \in BOOLEAN
    /\ dOut = Unset
    /\ dNew = <<>>
    /\ dPhase = "input"
    /\ StoreOff
    /\ RetryOff
    /\ AuxOff

\* extractNewMessages on the messages of the file.
ExtractCall ==
    /\ dPhase = "input"
    /\ dNew' = extractNewMessages(ReadMessages(dLines), dLast)
    /\ dPhase' = "extracted"
    /\ UNCHANGED <<dLines, dLast, dOpen, dOut, runVars, storeVars, retryVars, auxVars>>

\* CalculateDelta on the file.
CalculateDeltaCall ==
    /\ dPhase = "input"
    /\ dOut' = CalculateDelta(DeltaFileInfo, dLines, dOpen, dLast)
    /\ dPhase' = "calculated"
    /\ UNCHANGED <<dLines, dLast, dOpen, dNew, runVars, storeVars, retryVars, auxVars>>

NextDelta ==
    \/ ExtractCall
    \/ CalculateDeltaCall

SpecDelta == InitDelta /\ [][NextDelta]_vars

----------------------------------------------------------------------------
\* SyncState.Save step by step, and LoadState, on bounded states and files.

\* Session ids of the states that are saved: plain ones, one holding the byte
\* 0xFF and one holding the character U+FFFD.
StoreIDs == {KeyOrder[i] : i \in DOMAIN KeyOrder}

StoreEntries == {SessionState(u, 1, n) : u \in {"u1", "u2"}, n \in {0, 2}}

\* The Sessions maps given to Save.
StoreSessions ==
    UNION {[D -> StoreEntries] :
              D \in {E \in SUBSET StoreIDs : Cardinality(E) <= MaxSessions}}

\* What the state path holds before the call: nothing, something unparseable,
\* a state without sessions, or an earlier save.
StoreFilesBefore ==
    {AbsentFile, CorruptFile, NullSessionsFile,
     SavedFile([k \in {"s1"} |-> SessionState("u0", 0, 1)], 0)}

InitStore ==
    /\ InitRun
    /\ dLines = <<>> /\ dLast = "" /\ dOpen = TRUE
    /\ dOut = Unset /\ dNew = <<>> /\ dPhase = "off"
    /\ RetryOff
    /\ AuxOff
    /\ sPc = "start"
    /\ sMem \in StoreSessions
    /\ sTarget \in StoreFilesBefore
    /\ sPrev = sTarget
    /\ sTmp \in {AbsentFile, PartialFile}
    /\ sData = Unset
    /\ sErr = ""
    /\ sLoaded = Unset

\* LoadState(path), before a Save or after one has returned.
LoadCall ==
    /\ sPc \in {"start", "returned"}
    /\ sLoaded' = LoadState(sTarget)
    /\ sPc' = IF sPc = "start" THEN "loaded" ELSE "reloaded"
    /\ UNCHANGED <<sMem, sPrev, sTarget, sTmp, sData, sErr,
                   runVars, deltaVars, retryVars, auxVars>>

\* Save: the timestamp and json.MarshalIndent.
SaveMarshal ==
    /\ sPc = "start"
    /\ sData' = SavedFile(sMem, 1)
    /\ sPc' = "mkdir"
    /\ UNCHANGED <<sMem, sPrev, sTarget, sTmp, sErr, sLoaded,
                   runVars, deltaVars, retryVars, auxVars>>

\* Save: os.MkdirAll.
SaveMkdir ==
    /\ sPc = "mkdir"
    /\ \E ok \in BOOLEAN :
          IF ok THEN sPc' = "open" /\ sErr' = sErr
          ELSE sPc' = "returned" /\ sErr' = "mkdir"
    /\ UNCHANGED <<sMem, sPrev, sTarget, sTmp, sData, sLoaded,
                   runVars, deltaVars, retryVars, auxVars>>

\* Variant: the data is written over the state file itself.
SaveOpenTmp_inPlace ==
    /\ sPc = "open"
    /\ \E ok \in BOOLEAN :
          IF ok THEN sPc' = "write" /\ sErr' = sErr /\ sTarget' = PartialFile
          ELSE sPc' = "returned" /\ sErr' = "write" /\ sTarget' = sTarget
    /\ UNCHANGED <<sMem, sPrev, sTmp, sData, sLoaded,
                   runVars, deltaVars, retryVars, auxVars>>

\* Save: os.WriteFile opens the temporary file, creating or truncating it.
SaveOpenTmp ==
    /\ sPc = "open"
    /\ \E ok \in BOOLEAN :
          IF ok THEN sPc' = "write" /\ sErr' = sErr /\ sTmp' = PartialFile
          ELSE sPc' = "returned" /\ sErr' = "write" /\ sTmp' = sTmp
    /\ UNCHANGED <<sMem, sPrev, sTarget, sData, sLoaded,
                   runVars, deltaVars, retryVars, auxVars>>

\* Save: os.WriteFile writes the data; a failure leaves the file cut short.
SaveWriteTmp ==
    /\ sPc = "write"
    /\ \E ok \in BOOLEAN :
          IF ok THEN sPc' = "rename" /\ sErr' = sErr /\ sTmp' = sData
          ELSE sPc' = "returned" /\ sErr' = "write" /\ sTmp' = PartialFile
    /\ UNCHANGED <<sMem, sPrev, sTarget, sData, sLoaded,
                   runVars, deltaVars, retryVars, auxVars>>

\* Save: os.Rename of the temporary file over the state file.
SaveRename ==
    /\ sPc = "rename"
    /\ \E ok \in BOOLEAN :
          IF ok
          THEN /\ sTarget' = sTmp /\ sTmp' = AbsentFile
               /\ sPc' = "returned" /\ sErr' = ""
          ELSE /\ sPc' = "remove" /\ sErr' = "rename"
               /\ UNCHANGED <<sTarget, sTmp>>
    /\ UNCHANGED <<sMem, sPrev, sData, sLoaded, runVars, deltaVars, retryVars, auxVars>>

\* Save: os.Remove of the temporary file after a failed rename.  Its result
\* is ignored: when the removal fails too the temporary file stays.
SaveRemoveTmp ==
    /\ sPc = "remove"
    /\ \E ok \in BOOLEAN : sTmp' = IF ok THEN AbsentFile ELSE sTmp
    /\ sPc' = "returned"
    /\ UNCHANGED <<sMem, sPrev, sTarget, sData, sErr, sLoaded,
                   runVars, deltaVars, retryVars, auxVars>>

NextStore ==
    \/ LoadCall
    \/ SaveMarshal
    \/ SaveMkdir
    \/ SaveOpenTmp
    \/ SaveWriteTmp
    \/ SaveRename
    \/ SaveRemoveTmp

SpecState == InitStore /\ [][NextStore]_vars

----------------------------------------------------------------------------
\* Client.doWithRetry.

maxRetries == 3

\* Errors of the client.
NoError == [kind |-> "nil"]
HTTPError(status) == [kind |-> "http", StatusCode |-> status]
OtherError(what) == [kind |-> "other", what |-> what]
ContextCanceled == [kind |-> "ctx"]
MaxRetriesExceeded(lastErr) == [kind |-> "maxRetries", wraps |-> lastErr]

\* Status codes a server answers with besides 2xx.
ErrorStatuses == {400, 404, 429, 500, 503}

\* What one doRequest call returns: nil for a 2xx response with a parseable
\* body, an HTTPError for any other status, or an error that is no HTTPError
\* (no token, transport failure, unparseable body). With the context
\* cancelled the request is not carried out.
RequestOutcomes(ctxDone) ==
    IF ctxDone THEN {OtherError("token"), OtherError("transport")}
    ELSE {NoError} \cup {HTTPError(st) : st \in ErrorStatuses}
         \cup {OtherError(w) : w \in {"token", "transport", "parse"}}

\* Variant: every HTTPError is retried.
ShouldRetry_anyStatus(err) == err.kind = "http"

\* The test after a failed request: retry only HTTP 429 and 5xx.
ShouldRetry(err) ==
    err.kind = "http" /\ (err.StatusCode = 429 \/ err.StatusCode >= 500)

\* Variant: one more turn of the loop.
MoreAttempts_oneMore(attempt) == attempt <= maxRetries + 1

\* The loop condition.
MoreAttempts(attempt) == attempt <= maxRetries

InitRetry ==
    /\ InitRun
    /\ dLines = <<>> /\ dLast = "" /\ dOpen = TRUE
    /\ dOut = Unset /\ dNew = <<>> /\ dPhase = "off"
    /\ StoreOff
    /\ AuxOff
    /\ qPc = "request"
    /\ qAttempt = 0
    /\ qRequests = <<>>
    /\ qLastErr = Unset
    /\ qErr = Unset
    /\ qCancelled \in BOOLEAN

\* The run's context is cancelled (SIGINT or SIGTERM) while the call is on.
CancelFires ==
    /\ qPc \in {"request", "backoff"}
    /\ ~qCancelled
    /\ qCancelled' = TRUE
    /\ UNCHANGED <<qPc, qAttempt, qRequests, qLastErr, qErr,
                   runVars, deltaVars, storeVars, auxVars>>

\* Variant: the backoff delay is slept through without watching the context.
RetryBackoff_sleeps ==
    /\ qPc = "backoff"
    /\ qPc' = "request"
    /\ UNCHANGED <<qAttempt, qRequests, qLastErr, qErr, qCancelled,
                   runVars, deltaVars, storeVars, auxVars>>

\* The select of a retry turn: the delay elapses, unless the context is or
\* gets cancelled first, which ends the call with the context's error.
RetryBackoff ==
    /\ qPc = "backoff"
    /\ IF qCancelled
       THEN qPc' = "returned" /\ qErr' = ContextCanceled
       ELSE qPc' = "request" /\ qErr' = qErr
    /\ UNCHANGED <<qAttempt, qRequests, qLastErr, qCancelled,
                   runVars, deltaVars, storeVars, auxVars>>

\* One doRequest call returning err, and the rest of the loop body.
RetryRequestStep(err) ==
    /\ qPc = "request"
    /\ qRequests' = Append(qRequests, err)
    /\ IF err = NoError
       THEN /\ qPc' = "returned" /\ qErr' = NoError
            /\ UNCHANGED <<qAttempt, qLastErr>>
       ELSE /\ qLastErr' = err
            /\ IF ShouldRetry(err)
               THEN /\ qAttempt' = qAttempt + 1
                    /\ IF MoreAttempts(qAttempt + 1)
                       THEN qPc' = "backoff" /\ qErr' = qErr
                       ELSE qPc' = "returned" /\ qErr' = MaxRetriesExceeded(err)
               ELSE qPc' = "returned" /\ qErr' = err /\ qAttempt' = qAttempt
    /\ UNCHANGED <<qCancelled, runVars, deltaVars, storeVars, auxVars>>

RetryRequest == \E err \in RequestOutcomes(qCancelled) : RetryRequestStep(err)

NextRetry ==
    \/ CancelFires
    \/ RetryBackoff
    \/ RetryRequest

SpecRetry == InitRetry /\ [][NextRetry]_vars

----------------------------------------------------------------------------
\* CalculateFileHash on bounded file contents, called twice on the same file,
\* and CalculateDelta without a watermark on the same file.

\* The file CalculateFileHash is called on.
HashFileInfo == [Path |-> "/test/project/test.jsonl", ProjectPath |-> "/project",
                 SessionID |-> "test"]

\* Lines a file may hold: empty, not JSON, structured lines (with a string
\* content, with a content array, with and without a model, without a role,
\* without a uuid), a line whose message object has no role while the line
\* itself has one, a line whose "message" is not an object, and a legacy line
\* without a role.
HashLines ==
    {EmptyLine, Malformed,
     StructuredLine("u1", "t1", "user", MessageObject("user", "hi", <<>>, "")),
     StructuredLine("u2", "t2", "assistant",
                    MessageObject("assistant", "",
                                  <<PartWithoutText("tool_use"), Part("text", "yo")>>,
                                  "opus")),
     StructuredLine("u3", "t3", "assistant", MessageObject("assistant", "ok", <<>>, "sonnet")),
     StructuredLine("u4", "t4", "summary", MessageObject("", "x", <<>>, "")),
     StructuredLine("", "t5", "user", MessageObject("user", "hi", <<>>, "")),
     JSONLine("u6", "t6", "", MessageObject("", "", <<>>, ""), "user", "flat", "", 7),
     JSONLine("u7", "t7", "", MessageNotObject, "user", "z", "haiku", 0),
     JSONLine("u8", "", "", NoMessage, "", "c", "", 0)}

InitHash ==
    /\ InitRun
    /\ dLines = <<>> /\ dLast = "" /\ dOpen = TRUE
    /\ dOut = Unset /\ dNew = <<>> /\ dPhase = "off"
    /\ StoreOff
    /\ RetryOff
    /\ hLines \in SeqsUpTo(HashLines, MaxLines)
    /\ hOpen \in BOOLEAN
    /\ hPc = "input"
    /\ hFirst = Unset /\ hSecond = Unset /\ hDelta = Unset
    /\ ScanOff
    /\ LoginOff
    /\ RaceOff
    /\ MoreOff

\* A call of CalculateFileHash: the first, then a second one on the same file.
HashCall ==
    /\ hPc \in {"input", "once"}
    /\ \E r \in CalculateFileHash(HashFileInfo, hLines, hOpen) :
          IF hPc = "input"
          THEN hFirst' = r /\ hSecond' = hSecond /\ hPc' = "once"
          ELSE hSecond' = r /\ hFirst' = hFirst /\ hPc' = "twice"
    /\ UNCHANGED <<hLines, hOpen, hDelta, runVars, deltaVars, storeVars, retryVars, moreVars, scanVars, loginVars, raceVars>>

\* A call of CalculateDelta on the same file for a session never synced.
HashedFileDelta ==
    /\ hPc = "twice"
    /\ hDelta' = CalculateDelta(HashFileInfo, hLines, hOpen, "")
    /\ hPc' = "delta"
    /\ UNCHANGED <<hLines, hOpen, hFirst, hSecond, runVars, deltaVars, storeVars, retryVars, moreVars, scanVars, loginVars, raceVars>>

NextHash == HashCall \/ HashedFileDelta

SpecHash == InitHash /\ [][NextHash]_vars

----------------------------------------------------------------------------
\* The normalisation of lines, on files of structured lines with the shapes of
\* content and of lines in both formats.

\* Lines with a string content, with content arrays (two text parts; other
\* parts around two text parts; no text part; a text part without a string
\* text before one with it), a structured line acceptable under the legacy
\* shape only, a line acceptable under both, a legacy line, a line acceptable
\* under neither, and a line whose "message" is not an object.
NormalizeLines ==
    {StructuredLine("n1", "t1", "user", MessageObject("user", "plain", <<>>, "")),
     StructuredLine("n2", "t2", "assistant",
                    MessageObject("assistant", "",
                                  <<Part("text", "first"), Part("text", "second")>>, "")),
     StructuredLine("n3", "t3", "assistant",
                    MessageObject("assistant", "",
                                  <<PartWithoutText("tool_use"), Part("text", "yo"),
                                    PartWithoutText("image"), Part("text", "later")>>, "")),
     StructuredLine("n4", "t4", "assistant",
                    MessageObject("assistant", "",
                                  <<PartWithoutText("tool_use"), Part("thinking", "hm")>>, "")),
     StructuredLine("n5", "t5", "assistant",
                    MessageObject("assistant", "",
                                  <<PartWithoutText("text"), Part("text", "second")>>, "")),
     JSONLine("n6", "t6", "", MessageObject("", "inner", <<>>, ""), "user", "flat", "", 0),
     JSONLine("n7", "t7", "", MessageObject("assistant", "inner", <<>>, ""),
              "user", "flat", "", 0),
     LegacyLine("n8", "user", "old"),
     JSONLine("", "t9", "", MessageObject("user", "inner", <<>>, ""), "user", "flat", "", 0),
     JSONLine("n10", "t10", "", MessageNotObject, "user", "flat", "", 3)}

InitNormalize ==
    /\ InitRun
    /\ dLines = <<>> /\ dLast = "" /\ dOpen = TRUE
    /\ dOut = Unset /\ dNew = <<>> /\ dPhase = "off"
    /\ StoreOff
    /\ RetryOff
    /\ hLines \in SeqsUpTo(NormalizeLines, MaxLines)
    /\ hOpen = TRUE
    /\ hPc = "input"
    /\ hFirst = Unset /\ hSecond = Unset /\ hDelta = Unset
    /\ ScanOff
    /\ LoginOff
    /\ RaceOff
    /\ MoreOff

SpecNormalize == InitNormalize /\ [][NextHash]_vars

----------------------------------------------------------------------------
\* ScanForJSONL on bounded directory trees, and runSync's check of its result.
\* Names, paths and patterns are sequences of characters.

\* Names used by the scanner.
JSONLSuffix == <<".", "j", "s", "o", "n", "l">>
DotClaude == <<".", "c", "l", "a", "u", "d", "e">>

HasPrefix(str, prefix) ==
    Len(prefix) <= Len(str) /\ SubSeq(str, 1, Len(prefix)) = prefix

HasSuffix(str, suffix) ==
    Len(suffix) <= Len(str) /\ SubSeq(str, Len(str) - Len(suffix) + 1, Len(str)) = suffix

\* strings.Contains.
Contains(str, substr) ==
    \E k \in 0..(Len(str) - Len(substr)) : SubSeq(str, k + 1, k + Len(substr)) = substr

\* The position of the last "/" of a path, 0 if it has none.
LastSlash(path) ==
    IF \E k \in DOMAIN path : path[k] = "/"
    THEN CHOOSE k \in DOMAIN path : path[k] = "/" /\ \A m \in DOMAIN path : path[m] = "/" => m <= k
    ELSE 0

\* filepath.Base and filepath.Dir of a clean path that does not end in "/".
Base(path) == SubSeq(path, LastSlash(path) + 1, Len(path))

Dir(path) ==
    IF LastSlash(path) = 0 THEN <<".">>
    ELSE IF LastSlash(path) = 1 THEN <<"/">>
    ELSE SubSeq(path, 1, LastSlash(path) - 1)

\* filepath.Join of a directory and a name: the result is cleaned, so that
\* joining "." and a name gives the name.
Join(dir, name) == IF dir = <<".">> THEN name ELSE dir \o <<"/">> \o name

\* filepath.Rel of a path found by walking baseDir.
Rel(baseDir, path) ==
    IF path = baseDir THEN <<".">>
    ELSE IF baseDir = <<".">> THEN path
    ELSE SubSeq(path, Len(baseDir) + 2, Len(path))

\* filepath.Match for patterns made of "*", "?" and plain characters: the
\* pattern has to match the whole name; "*" matches any run of characters
\* other than "/", "?" one such character.
RECURSIVE Match(_, _)
Match(pattern, name) ==
    IF pattern = <<>> THEN name = <<>>
    ELSE IF Head(pattern) = "*"
         THEN \E k \in 0..Len(name) :
                 /\ \A m \in 1..k : name[m] # "/"
                 /\ Match(Tail(pattern), SubSeq(name, k + 1, Len(name)))
    ELSE IF name = <<>> THEN FALSE
    ELSE IF Head(pattern) = "?" THEN Head(name) # "/" /\ Match(Tail(pattern), Tail(name))
    ELSE Head(pattern) = Head(name) /\ Match(Tail(pattern), Tail(name))

\* Variant: only the glob rule.
isExcluded_globOnly(path, patterns) ==
    \E i \in DOMAIN patterns : Match(patterns[i], Base(path))

isExcluded(path, patterns) ==
    \E i \in DOMAIN patterns :
        Match(patterns[i], Base(path)) \/ Contains(path, patterns[i])

extractProjectPath(relPath) ==
    IF Dir(relPath) = <<".">> THEN <<"/">> ELSE <<"/">> \o Dir(relPath)

extractSessionID(filename) ==
    IF HasSuffix(filename, JSONLSuffix)
    THEN SubSeq(filename, 1, Len(filename) - Len(JSONLSuffix))
    ELSE filename

\* An entry of the directory tree: its name, whether it is a directory, what
\* reading it does ("ok", "lstatFails": os.Lstat on it fails, "readdirFails":
\* it is a directory whose entries cannot be listed) and, for a directory, its
\* entries in the order of their names.
File(name) == [name |-> name, isDir |-> FALSE, stat |-> "ok", entries |-> <<>>]
Directory(name, stat, entries) ==
    [name |-> name, isDir |-> TRUE, stat |-> stat, entries |-> entries]

\* Results of the walk callback and of the walk: what is returned ("nil" or
\* "SkipDir"; no other error is ever returned) and the files appended.
WalkResult(ret, found) == [ret |-> ret, files |-> found]

\* The test of the callback on a directory's name.
SkipsDirectory(name) ==
    HasPrefix(name, <<".">>) /\ name # <<".">> /\ name # DotClaude

\* The callback ScanForJSONL gives to filepath.Walk, called on an entry; hasInfo
\* is whether info is not nil, err whether the walk reports an error for the
\* entry.  ModTime and Size of a FileInfo are left out.
walkFn(baseDir, patterns, path, entry, hasInfo, err) ==
    IF err
    THEN WalkResult(IF hasInfo /\ entry.isDir THEN "SkipDir" ELSE "nil", <<>>)
    ELSE IF entry.isDir
    THEN WalkResult(IF SkipsDirectory(entry.name) THEN "SkipDir" ELSE "nil", <<>>)
    ELSE IF ~HasSuffix(entry.name, JSONLSuffix) THEN WalkResult("nil", <<>>)
    ELSE IF isExcluded(path, patterns) THEN WalkResult("nil", <<>>)
    ELSE WalkResult("nil", <<[Path |-> path,
                              ProjectPath |-> extractProjectPath(Rel(baseDir, path)),
                              SessionID |-> extractSessionID(entry.name)]>>)

\* filepath.walk on an entry whose Lstat succeeded, and its loop over the
\* entries of a directory from position k on.
RECURSIVE walk(_, _, _, _)
RECURSIVE walkEntries(_, _, _, _, _)
walk(baseDir, patterns, path, entry) ==
    IF ~entry.isDir THEN walkFn(baseDir, patterns, path, entry, TRUE, FALSE)
    ELSE LET r == walkFn(baseDir, patterns, path, entry, TRUE, entry.stat = "readdirFails")
         IN  IF entry.stat = "readdirFails" \/ r.ret # "nil" THEN r
             ELSE walkEntries(baseDir, patterns, path, entry.entries, 1)

walkEntries(baseDir, patterns, path, entries, k) ==
    IF k > Len(entries) THEN WalkResult("nil", <<>>)
    ELSE LET filename == Join(path, entries[k].name)
             r == IF entries[k].stat = "lstatFails"
                  THEN walkFn(baseDir, patterns, filename, entries[k], FALSE, TRUE)
                  ELSE walk(baseDir, patterns, filename, entries[k])
             stops == IF entries[k].stat = "lstatFails"
                      THEN r.ret # "nil" /\ r.ret # "SkipDir"
                      ELSE r.ret # "nil" /\ (~entries[k].isDir \/ r.ret # "SkipDir")
         IN  IF stops THEN r
             ELSE LET rest == walkEntries(baseDir, patterns, path, entries, k + 1)
                  IN  WalkResult(rest.ret, r.files \o rest.files)

\* filepath.Walk: SkipDir coming back from the root is turned into nil.
Walk(baseDir, patterns, root) ==
    LET r == IF root.stat = "lstatFails"
             THEN walkFn(baseDir, patterns, baseDir, root, FALSE, TRUE)
             ELSE walk(baseDir, patterns, baseDir, root)
    IN  WalkResult(IF r.ret = "SkipDir" THEN "nil" ELSE r.ret, r.files)

\* ScanForJSONL on baseDir, where the directory tree `root` is found.
ScanDirectory(baseDir, patterns, root) ==
    LET r == Walk(baseDir, patterns, root)
    IN  [err |-> r.ret # "nil", files |-> r.files]

\* The directories ScanForJSONL is called on: a plain name, ".claude", another
\* name starting with a dot, and the current directory.
ScanBaseDirs ==
    {<<"/", "d", "/", "p", "r", "o", "j", "e", "c", "t", "s">>,
     <<"/", "d", "/", ".", "c", "l", "a", "u", "d", "e">>,
     <<"/", "d", "/", ".", "d", "a", "t", "a">>,
     <<".">>}

EntryStats == {"ok", "lstatFails", "readdirFails"}

\* The trees found there: a hidden directory (".claude" or ".git") with a log
\* file and a directory below it, two log files, a file that is no log file
\* and a project directory with a log file; the root and the project
\* directory may be unreadable.
ScanTrees(baseDir) ==
    {Directory(Base(baseDir), rootStat,
               <<Directory(hidden, "ok",
                           <<File(<<"h", ".", "j", "s", "o", "n", "l">>),
                             Directory(<<"s", "u", "b">>, "ok", <<File(<<"s", ".", "j", "s", "o", "n", "l">>)>>)>>),
                 File(<<"e", "x", "c", "l", "u", "d", "e", "-", "m", "e", ".", "j", "s", "o", "n", "l">>),
                 File(<<"k", "e", "e", "p", ".", "j", "s", "o", "n", "l">>),
                 File(<<"n", ".", "t", "x", "t">>),
                 Directory(<<"p", "r", "o", "j">>, projStat, <<File(<<"b", ".", "j", "s", "o", "n", "l">>)>>)>>) :
        rootStat \in EntryStats, hidden \in {DotClaude, <<".", "g", "i", "t">>}, projStat \in EntryStats}

\* Exclude patterns: the test's glob, a substring of a directory name (and of
\* one of the roots), a substring of a file name, a one-character glob, a glob
\* over another suffix, and the empty pattern.
ScanPatterns ==
    {<<"e", "x", "c", "l", "u", "d", "e", "-", "m", "e", "*">>,
     <<"p", "r", "o", "j">>,
     <<"k", "e", "e", "p">>,
     <<"?", ".", "j", "s", "o", "n", "l">>,
     <<"*", ".", "t", "x", "t">>,
     <<>>}

InitScan ==
    /\ InitRun
    /\ dLines = <<>> /\ dLast = "" /\ dOpen = TRUE
    /\ dOut = Unset /\ dNew = <<>> /\ dPhase = "off"
    /\ StoreOff
    /\ RetryOff
    /\ HashOff
    /\ wBase \in ScanBaseDirs
    /\ wRoot \in ScanTrees(wBase)
    /\ wPatterns \in SeqsUpTo(ScanPatterns, MaxPatterns)
    /\ wPc = "input"
    /\ wFiles = <<>> /\ wErr = FALSE /\ wRun = ""
    /\ LoginOff
    /\ RaceOff
    /\ MoreOff

\* The call sync.ScanForJSONL(cfg.ClaudeDataDir, cfg.ExcludePatterns).
ScanCall ==
    /\ wPc = "input"
    /\ LET r == ScanDirectory(wBase, wPatterns, wRoot)
       IN  wFiles' = r.files /\ wErr' = r.err
    /\ wPc' = "scanned"
    /\ UNCHANGED <<wBase, wRoot, wPatterns, wRun,
                   runVars, deltaVars, storeVars, retryVars, moreVars, hashVars, loginVars, raceVars>>

\* runSync's check of the result: it returns the error, or goes on to the
\* file loop with the files.
ScanCheck ==
    /\ wPc = "scanned"
    /\ wRun' = IF wErr THEN "aborted" ELSE "loop"
    /\ wPc' = "checked"
    /\ UNCHANGED <<wBase, wRoot, wPatterns, wFiles, wErr,
                   runVars, deltaVars, storeVars, retryVars, moreVars, hashVars, loginVars, raceVars>>

NextScan == ScanCall \/ ScanCheck

SpecScan == InitScan /\ [][NextScan]_vars

----------------------------------------------------------------------------
\* Two runs of runSync on the same state path: each loads the state, updates
\* its own copy in the file loop and saves it.  The files are inodes with
\* names, as the runs see them through the file system.

RaceRuns == {1, 2}

RaceSessions == {"s1", "s2"}

\* The uuids of the messages of a log file, in file order.
RaceUUIDs == <<"m1", "m2">>

\* The position of a watermark in the log file, 0 for no watermark.
UUIDIndex(uuid) ==
    IF uuid = "" THEN 0 ELSE CHOOSE k \in DOMAIN RaceUUIDs : RaceUUIDs[k] = uuid

\* The file a name refers to; a name bound to inode 0 does not exist.
ContentAt(inodes, inode) == IF inode = 0 THEN AbsentFile ELSE inodes[inode]

\* The length of a written state file grows with the number of its sessions.
FileLength(file) == Len(file.Sessions.members)

\* The content of a file after data was written at offset 0 through a
\* descriptor, without truncation: a longer content written before through
\* another descriptor leaves its tail behind the data.
WriteAtStart(old, data) ==
    IF old.kind = "ok" /\ FileLength(old) > FileLength(data) THEN CorruptFile
    ELSE data

InitRace ==
    /\ InitRun
    /\ dLines = <<>> /\ dLast = "" /\ dOpen = TRUE
    /\ dOut = Unset /\ dNew = <<>> /\ dPhase = "off"
    /\ StoreOff
    /\ RetryOff
    /\ HashOff
    /\ ScanOff
    /\ LoginOff
    /\ MoreOff
    /\ cPc = [p \in RaceRuns |-> "load"]
    /\ cMem = [p \in RaceRuns |-> EmptySessions]
    /\ cData = [p \in RaceRuns |-> Unset]
    /\ cFd = [p \in RaceRuns |-> 0]
    /\ cInodes \in {<<>>, <<SavedFile([s \in {"s1"} |-> SessionState("m1", 0, 1)], 0)>>}
    /\ cNames = [target |-> Len(cInodes), tmp |-> 0]
    /\ cAdvanced = [p \in RaceRuns |-> {}]
    /\ cErr = [p \in RaceRuns |-> ""]

\* sync.LoadState(statePath) of run p, and runSync's return on its error.
RaceLoad(p) ==
    /\ cPc[p] = "load"
    /\ LET r == LoadState(ContentAt(cInodes, cNames.target))
       IN  IF r.err
           THEN /\ cPc' = [cPc EXCEPT ![p] = "done"]
                /\ cErr' = [cErr EXCEPT ![p] = "state"]
                /\ cMem' = cMem
           ELSE /\ cPc' = [cPc EXCEPT ![p] = "loop"]
                /\ cMem' = [cMem EXCEPT ![p] = r.Sessions]
                /\ cErr' = cErr
    /\ UNCHANGED <<cData, cFd, cInodes, cNames, cAdvanced,
                   runVars, deltaVars, storeVars, retryVars, moreVars, hashVars, scanVars, loginVars>>

\* An iteration of the file loop of run p that uploaded the messages of a
\* session after its watermark up to message k and called state.UpdateSession.
RaceSync(p) ==
    /\ cPc[p] = "loop"
    /\ \E s \in RaceSessions, k \in DOMAIN RaceUUIDs :
          /\ k > UUIDIndex(GetLastSyncedUUID(cMem[p], s))
          /\ cMem' = [cMem EXCEPT ![p] = UpdateSession(cMem[p], s, RaceUUIDs[k], k, 1)]
          /\ cAdvanced' = [cAdvanced EXCEPT ![p] = @ \cup {<<s, k>>}]
    /\ UNCHANGED <<cPc, cData, cFd, cInodes, cNames, cErr,
                   runVars, deltaVars, storeVars, retryVars, moreVars, hashVars, scanVars, loginVars>>

\* state.Save of run p after the loop: json.MarshalIndent, and os.WriteFile
\* opening statePath + ".tmp", which creates the file or truncates it.
RaceSaveOpen(p) ==
    /\ cPc[p] = "loop"
    /\ cData' = [cData EXCEPT ![p] = SavedFile(cMem[p], 1)]
    /\ IF cNames.tmp = 0
       THEN /\ cInodes' = Append(cInodes, PartialFile)
            /\ cNames' = [cNames EXCEPT !.tmp = Len(cInodes) + 1]
            /\ cFd' = [cFd EXCEPT ![p] = Len(cInodes) + 1]
       ELSE /\ cInodes' = [cInodes EXCEPT ![cNames.tmp] = PartialFile]
            /\ cNames' = cNames
            /\ cFd' = [cFd EXCEPT ![p] = cNames.tmp]
    /\ cPc' = [cPc EXCEPT ![p] = "write"]
    /\ UNCHANGED <<cMem, cAdvanced, cErr,
                   runVars, deltaVars, storeVars, retryVars, moreVars, hashVars, scanVars, loginVars>>

\* os.WriteFile of run p writing its data through its descriptor and closing it.
RaceSaveWrite(p) ==
    /\ cPc[p] = "write"
    /\ cInodes' = [cInodes EXCEPT ![cFd[p]] = WriteAtStart(@, cData[p])]
    /\ cFd' = [cFd EXCEPT ![p] = 0]
    /\ cPc' = [cPc EXCEPT ![p] = "rename"]
    /\ UNCHANGED <<cMem, cData, cNames, cAdvanced, cErr,
                   runVars, deltaVars, storeVars, retryVars, moreVars, hashVars, scanVars, loginVars>>

\* os.Rename of run p; it fails when the other run has renamed the temporary
\* file away, os.Remove then finds nothing, and runSync returns the error.
RaceSaveRename(p) ==
    /\ cPc[p] = "rename"
    /\ IF cNames.tmp = 0
       THEN cErr' = [cErr EXCEPT ![p] = "save"] /\ cNames' = cNames
       ELSE cErr' = cErr /\ cNames' = [target |-> cNames.tmp, tmp |-> 0]
    /\ cPc' = [cPc EXCEPT ![p] = "done"]
    /\ UNCHANGED <<cMem, cData, cFd, cInodes, cAdvanced,
                   runVars, deltaVars, storeVars, retryVars, moreVars, hashVars, scanVars, loginVars>>

NextRace ==
    \E p \in RaceRuns :
        \/ RaceLoad(p)
        \/ RaceSync(p)
        \/ RaceSaveOpen(p)
        \/ RaceSaveWrite(p)
        \/ RaceSaveRename(p)

SpecRace == InitRace /\ [][NextRace]_vars

----------------------------------------------------------------------------
\* Properties of delta extraction (checked under SpecDelta).

\* The messages CalculateDelta and extractNewMessages work on.
dMessages == ReadMessages(dLines)

\* C7: for a non-empty watermark that is the uuid of some message of M, the
\* result of extractNewMessages is exactly the messages after the first message
\* with that uuid, in file order.
C7_SuffixAfterFirstMatch ==
    (dPhase = "extracted" /\ dLast # "" /\ dLast \in UUIDsOf(dMessages)) =>
        \E i \in DOMAIN dMessages :
            /\ dMessages[i].UUID = dLast
            /\ \A j \in 1..(i - 1) : dMessages[j].UUID # dLast
            /\ dNew = SubSeq(dMessages, i + 1, Len(dMessages))

\* msg-1..msg-3 with watermark msg-1 has given exactly [msg-2, msg-3].
C7_Witness ==
    /\ dPhase = "extracted"
    /\ dLast = "msg-1"
    /\ [k \in DOMAIN dMessages |-> dMessages[k].UUID] = <<"msg-1", "msg-2", "msg-3">>
    /\ [k \in DOMAIN dNew |-> dNew[k].UUID] = <<"msg-2", "msg-3">>

\* C8: with an empty watermark, or a watermark that is the uuid of no message
\* of M, the result of extractNewMessages is M itself.
C8_FullResync ==
    (dPhase = "extracted" /\ (dLast = "" \/ dLast \notin UUIDsOf(dMessages))) =>
        dNew = dMessages

\* A watermark no message carries has given back all three messages.
C8_Witness ==
    /\ dPhase = "extracted"
    /\ dLast = "unknown"
    /\ Len(dMessages) = 3
    /\ dNew = dMessages

\* C9 as stated: whenever the watermark is the uuid of M's last message,
\* CalculateDelta on a readable file returns nil.
C9_Original ==
    (dPhase = "calculated" /\ dOpen /\ dMessages # <<>>
        /\ dLast = dMessages[Len(dMessages)].UUID) =>
        dOut = NilDelta

\* C9 amended: when the watermark is the uuid of M's last message and of no
\* earlier message of M, CalculateDelta on a readable file returns nil.
C9_NilWhenWatermarkIsLast ==
    (dPhase = "calculated" /\ dOpen /\ dMessages # <<>>
        /\ dLast = dMessages[Len(dMessages)].UUID
        /\ \A j \in 1..(Len(dMessages) - 1) : dMessages[j].UUID # dLast) =>
        dOut = NilDelta

\* msg-1..msg-3 with watermark msg-3 has given nil.
C9_Witness ==
    /\ dPhase = "calculated"
    /\ dOpen
    /\ dLast = "msg-3"
    /\ [k \in DOMAIN dMessages |-> dMessages[k].UUID] = <<"msg-1", "msg-2", "msg-3">>
    /\ dOut = NilDelta

\* C10: a result of CalculateDelta that is neither an error nor nil has a
\* non-empty message list whose last uuid is NewLastUUID.
C10_DeltaNeverEmpty ==
    (dPhase = "calculated" /\ ~dOut.err /\ ~dOut.isNil) =>
        /\ Len(dOut.Messages) > 0
        /\ dOut.NewLastUUID = dOut.Messages[Len(dOut.Messages)].UUID

\* A Delta of two messages has been returned, and elsewhere nil for a file
\* whose messages are all synced.
C10_Witness ==
    /\ dPhase = "calculated"
    /\ ~dOut.err /\ ~dOut.isNil
    /\ Len(dOut.Messages) = 2
    /\ dOut.NewLastUUID = "msg-3"

\* C25: an empty line and a line that is not valid JSON are discarded without
\* error: CalculateDelta on a file that can be read returns no error and returns
\* what it returns for the file without those lines, the messages of the other
\* lines in file order.  A file holding msg-1, a line that is not JSON and msg-2
\* yields, without a watermark, exactly msg-1 and msg-2.
C25_BadLinesDiscarded ==
    (dPhase = "calculated" /\ dOpen) =>
        /\ ~dOut.err
        /\ dOut = CalculateDelta(DeltaFileInfo,
                                 SelectSeq(dLines, LAMBDA line : line.kind = "json"),
                                 TRUE, dLast)
        /\ (/\ dLast = "" /\ Len(dLines) = 3
            /\ dLines[1] = LegacyLine("msg-1", "user", "x")
            /\ dLines[2] = Malformed
            /\ dLines[3] = LegacyLine("msg-2", "user", "y")) =>
               /\ ~dOut.isNil
               /\ dOut.Messages = ParseLine(dLines[1]) \o ParseLine(dLines[3])
               /\ [k \in DOMAIN dOut.Messages |-> dOut.Messages[k].UUID] = <<"msg-1", "msg-2">>

\* The file of the scenario was read without a watermark and a Delta of two
\* messages came back; elsewhere a file starting with an empty line.
C25_Witness ==
    /\ dPhase = "calculated" /\ dOpen
    /\ dLast = ""
    /\ dLines = <<LegacyLine("msg-1", "user", "x"), Malformed, LegacyLine("msg-2", "user", "y")>>
    /\ ~dOut.err /\ ~dOut.isNil
    /\ Len(dOut.Messages) = 2
    /\ dOut.NewLastUUID = "msg-2"

----------------------------------------------------------------------------
\* Properties of runSync (checked under Spec).

\* The file the loop is at.
CurrentFile == files[idx]

\* The steps of the file loop and what follows it.
InLoop == pc \in {"hash", "delta", "sync", "handle"}

\* The scanned files' paths, in scan order.
ScannedPaths == [k \in DOMAIN files |-> files[k].Path]

\* No other scanned file has this file's SessionID.
OnlyFileOfSession(file) ==
    \A k \in DOMAIN files : files[k].SessionID = file.SessionID => files[k] = file

\* C1: the hash and delta steps of a file leave the in-memory state alone, and
\* when the upload returns an error its handling leaves it alone too and adds
\* one to the error counter.
C1_UploadErrorKeepsWatermark ==
    [][ /\ (pc \in {"hash", "delta", "sync"} => state' = state)
        /\ ((pc = "handle" /\ resp.err) =>
               /\ state' = state
               /\ errors' = errors + 1
               /\ synced' = synced) ]_vars

\* An upload has failed for a session that already had a watermark.
C1_Witness ==
    /\ pc \in {"hash", "save"}
    /\ idx > 1
    /\ resp = [err |-> TRUE]
    /\ files[idx - 1].SessionID \in DOMAIN state
    /\ state[files[idx - 1].SessionID].LastSyncedUUID # ""
    /\ errors > 0

\* C2: when the upload returns no error and a response with success set, the
\* state entry of the file's session holds the uuid of the last message sent
\* and the processed count of the response.
C2_SuccessAdvancesWatermark ==
    [][ (pc = "handle" /\ ~resp.err /\ resp # NilResponse /\ resp.Success) =>
           LET sid == CurrentFile.SessionID
           IN  /\ sid \in DOMAIN state'
               /\ state'[sid].LastSyncedUUID = delta.Messages[Len(delta.Messages)].UUID
               /\ state'[sid].LastSyncedUUID = delta.NewLastUUID
               /\ state'[sid].MessageCount = resp.Processed ]_vars

\* A two-message upload was confirmed with a processed count of 0 over an
\* earlier entry of the session.
C2_Witness ==
    /\ pc \in {"hash", "save"}
    /\ idx > 1
    /\ resp = [err |-> FALSE, Success |-> TRUE, Processed |-> 0]
    /\ Len(delta.Messages) = 2
    /\ state[files[idx - 1].SessionID].LastSyncedUUID = delta.NewLastUUID
    /\ state[files[idx - 1].SessionID].MessageCount = 0

\* C3: while no state save has failed, an upload built for a file that is the
\* only one of its session holds no message of an upload already confirmed for
\* that session.
C3_NoResend ==
    (pc = "sync" /\ ~saveFailed /\ OnlyFileOfSession(CurrentFile)) =>
        UUIDsOf(delta.Messages) \cap confirmed[delta.SessionID] = {}

\* A later run is about to upload the appended message after an earlier
\* confirmed upload for the session.
C3_Witness ==
    /\ pc = "sync"
    /\ runs > 1
    /\ ~saveFailed
    /\ OnlyFileOfSession(CurrentFile)
    /\ confirmed[delta.SessionID] = {"b1"}
    /\ UUIDsOf(delta.Messages) = {"b2"}

\* C4: a run that got past the scan never ends without its loop having visited
\* every scanned file once, in scan order, and without the final save; inside
\* the loop the files before the current one are the ones visited, and a next
\* step of the run exists.
C4_EveryFileVisited ==
    /\ (pc \in {"hash", "delta", "sync", "handle", "save"}) =>
          /\ idx \in 1..(Len(files) + 1)
          /\ visited = SubSeq(ScannedPaths, 1,
                              IF pc \in {"delta", "sync", "handle"} THEN idx ELSE idx - 1)
    /\ pc \in {"save", "done"} /\ fetches = 1 => visited = ScannedPaths
    /\ pc = "done" /\ fetches = 1 => saves = 1
    /\ InLoop => ENABLED (HashFile \/ DeltaFile \/ SyncFile \/ HandleSync)

\* A run has ended after the save although its first file failed to hash, a
\* later one failed in delta extraction and the last one failed to upload.
C4_Witness ==
    /\ pc = "done"
    /\ saves = 1
    /\ visited = ScannedPaths
    /\ Len(files) = 3
    /\ errors = 3
    /\ synced = 0 /\ skipped = 0

\* C5: no save happens before or inside the file loop, and a run that reached
\* the loop (idx was set) has, when it ends, saved exactly once, after the last
\* file.
C5_SavedOnceAfterLoop ==
    /\ pc \in {"auth", "load", "scan", "fetch", "listed",
              "hash", "delta", "sync", "handle", "save"} => saves = 0
    /\ pc = "done" /\ idx >= 1 => saves = 1 /\ Len(visited) = Len(files)
    /\ pc = "done" => saves <= 1

\* A run in which every file failed has ended with its one save.
C5_Witness ==
    /\ pc = "done"
    /\ Len(files) = 3
    /\ errors = Len(files)
    /\ synced = 0 /\ skipped = 0
    /\ saves = 1
    /\ stateFile.kind = "ok"

\* C6: a file whose hash is computed and equals the remote hash of its session
\* ends its iteration in that step: skipped + 1, no CalculateDelta result and
\* no upload result for it, state and the other counters unchanged.
\* GetConversations is called once per run, before the first file is visited.
C6_UnchangedFileSkipped ==
    [][ /\ (pc = "hash" /\ ~localHash'.err
               /\ localHash'.hash = remoteHashes[CurrentFile.SessionID]) =>
               /\ skipped' = skipped + 1
               /\ idx' = idx + 1 /\ pc' \in {"hash", "save"}
               /\ delta' = Unset
               /\ resp' = Unset
               /\ state' = state
               /\ synced' = synced /\ errors' = errors
        /\ (visited' # visited /\ visited' # <<>>) => fetches = 1 /\ fetches' = 1
        /\ fetches' # fetches /\ fetches' # 0 =>
               fetches' = 1 /\ visited = <<>> /\ pc = "fetch" ]_vars

\* A file was skipped in a run that held a watermark for its session.
C6_Witness ==
    /\ pc \in {"hash", "save"}
    /\ idx > 1
    /\ skipped = 1
    /\ ~localHash.err
    /\ localHash.hash = remoteHashes[files[idx - 1].SessionID]
    /\ files[idx - 1].SessionID \in DOMAIN state
    /\ delta = Unset /\ resp = Unset

\* C23: a file that holds no valid message cannot be hashed, and a file that
\* cannot be hashed (it cannot be opened, or it holds no valid message) ends
\* its iteration in that step: errors + 1, no CalculateDelta result and no
\* upload result for it, the state and the other counters unchanged; the run
\* goes on with the next file, or with the save after the last one.
C23_HashFailureSkipsFile ==
    [][ pc = "hash" =>
          /\ (ReadMessages(FileLines(idx)) = <<>> => localHash'.err)
          /\ (localHash'.err =>
                 /\ errors' = errors + 1
                 /\ skipped' = skipped /\ synced' = synced
                 /\ delta' = Unset /\ resp' = Unset
                 /\ state' = state /\ stateFile' = stateFile
                 /\ confirmed' = confirmed
                 /\ runErr' = ""
                 /\ idx' = idx + 1
                 /\ pc' = IF idx < Len(files) THEN "hash" ELSE "save") ]_vars

\* The first file could not be opened and the run went on; the last file holds
\* one line that is not JSON, its hashing failed while the state held a
\* watermark for its session, and the run is at the save.
C23_Witness ==
    /\ pc = "save"
    /\ Len(files) = 3 /\ idx = 4
    /\ visited = ScannedPaths
    /\ FileLines(3) = <<Malformed>>
    /\ localHash.err
    /\ files[3].SessionID \in DOMAIN state
    /\ errors = 2 /\ skipped = 1
    /\ delta = Unset /\ resp = Unset

\* C12: inside the file loop the run has no error whatever the error counter,
\* and the save step decides the outcome alone: no error when the state was
\* written, the save's error when it was not.
C12_OnlySaveFailureFailsRun ==
    /\ [](pc \in {"hash", "delta", "sync", "handle", "save"} => runErr = "")
    /\ [][ pc = "save" =>
             /\ pc' = "done"
             /\ (stateFile' = SavedFile(state, runs) => runErr' = "")
             /\ (stateFile' # SavedFile(state, runs) =>
                    runErr' = "save" /\ stateFile' = stateFile) ]_vars

\* Every file was uploaded successfully and the run has ended with the save's
\* error.
C12_Witness ==
    /\ pc = "done"
    /\ Len(files) = 3
    /\ synced = 3 /\ errors = 0
    /\ runErr = "save"
    /\ stateFile # SavedFile(state, runs)

\* C13: a run whose GetValidToken failed is over with that error: nothing was
\* loaded into the state, no file scanned, no request sent and no save made, and
\* the state file stays as it is.
C13_NoCredentialAborts ==
    /\ [](runErr = "auth" =>
             /\ pc = "done"
             /\ state = EmptySessions
             /\ files = <<>> /\ visited = <<>>
             /\ fetches = 0 /\ saves = 0)
    /\ [][ /\ (pc = "auth" /\ pc' = "done") =>
                 runErr' = "auth" /\ stateFile' = stateFile
           /\ (runErr = "auth" => stateFile' = stateFile) ]_vars

\* A second run has ended at the credential check while the state file holds
\* the sessions the first run saved.
C13_Witness ==
    /\ pc = "done"
    /\ runs = 2
    /\ runErr = "auth"
    /\ stateFile.kind = "ok"
    /\ stateFile.Sessions # MarshalSessions(EmptySessions)
    /\ state = EmptySessions

\* C14: with an unparseable state file a run gets no further than LoadState: it
\* ends with the state error, no file scanned, no request sent, no save made,
\* and the file is left as it was.
C14_CorruptStateAborts ==
    /\ [](stateFile = CorruptFile =>
             /\ pc \in {"auth", "load", "done"}
             /\ (pc = "done" => runErr \in {"auth", "state"}))
    /\ [](runErr = "state" =>
             /\ pc = "done"
             /\ stateFile = CorruptFile
             /\ files = <<>> /\ visited = <<>>
             /\ fetches = 0 /\ saves = 0)
    /\ [][ (pc = "load" /\ stateFile = CorruptFile) =>
              pc' = "done" /\ runErr' = "state" /\ stateFile' = stateFile ]_vars

\* A run has ended in LoadState on a damaged state file.
C14_Witness ==
    /\ pc = "done"
    /\ runErr = "state"
    /\ stateFile = CorruptFile
    /\ files = <<>>
    /\ saves = 0

----------------------------------------------------------------------------
\* Properties of the state store (checked under SpecState).

\* C11 as stated: besides the state path never holding a file cut short, a
\* Save whose rename failed has returned with the temporary file gone.
C11_Original ==
    /\ sTarget # PartialFile
    /\ (sPc \in {"returned", "reloaded"} /\ sErr = "rename") => sTmp = AbsentFile

\* C11: whatever step Save is at, the state path holds the file it held when
\* Save was called or the complete new data, never a file cut short; a Save
\* that returned nil has put the new data there; a Save whose rename failed
\* has returned that error with the state path as it was, after one attempt
\* to remove the temporary file, which is then gone or still holds the
\* complete new data.
C11_SaveIsAtomic ==
    /\ sTarget # PartialFile
    /\ sTarget = sPrev \/ (sData # Unset /\ sTarget = sData)
    /\ (sPc \in {"returned", "reloaded"} /\ sErr = "") => sTarget = sData
    /\ (sPc \in {"returned", "reloaded"} /\ sErr # "") => sTarget = sPrev
    /\ (sPc \in {"returned", "reloaded"} /\ sErr = "rename") => sTmp \in {AbsentFile, sData}
    /\ (sPc = "remove") => (sErr = "rename" /\ sTmp = sData /\ sTarget = sPrev)

\* A rename over an earlier save has failed: the earlier save is still in
\* place and the temporary file is gone.
C11_Witness ==
    /\ sPc = "returned"
    /\ sErr = "rename"
    /\ sPrev.kind = "ok"
    /\ sTarget = sPrev
    /\ sData # sPrev
    /\ sTmp = AbsentFile

\* C15: LoadState on a path without a file returns no error and an empty
\* Sessions map that can be read and written: every session's watermark reads
\* as the empty string, and UpdateSession on it stores its entry.
C15_LoadMissingIsEmpty ==
    (sPc = "loaded" /\ sTarget = AbsentFile) =>
        /\ ~sLoaded.err
        /\ sLoaded.Sessions = EmptySessions
        /\ \A id \in StoreIDs :
              /\ GetLastSyncedUUID(sLoaded.Sessions, id) = ""
              /\ GetLastSyncedUUID(
                     UpdateSession(sLoaded.Sessions, id, "u1", 1, 1), id) = "u1"

\* LoadState has returned for a path without a file.
C15_Witness ==
    /\ sPc = "loaded"
    /\ sTarget = AbsentFile
    /\ ~sLoaded.err
    /\ DOMAIN sLoaded.Sessions = {}

\* C16 as stated: after a Save that returned nil, LoadState of the same path
\* returns no error and a Sessions map equal to the saved one.
C16_RoundTrip ==
    (sPc = "reloaded" /\ sErr = "") =>
        /\ ~sLoaded.err
        /\ sLoaded.Sessions = sMem

\* A state of two sessions with plain ids has come back equal.
C16_Witness ==
    /\ sPc = "reloaded"
    /\ sErr = ""
    /\ DOMAIN sMem = {"s1", "s2"}
    /\ ~sLoaded.err
    /\ sLoaded.Sessions = sMem

----------------------------------------------------------------------------
\* Properties of the retry loop (checked under SpecRetry).

\* The requests of the call before the latest one.
EarlierRequests == SubSeq(qRequests, 1, Len(qRequests) - 1)

\* C17: a call makes at most 4 requests; every request that was followed by
\* another had been answered with 429 or 5xx; a call returns nil exactly when
\* its latest request succeeded (so two 500s and a 200 give nil after 3
\* requests); and it returns 'max retries exceeded' exactly when its fourth
\* request was answered with 429 or 5xx.
C17_RetryBoundedAndSelective ==
    /\ Len(qRequests) <= 4
    /\ \A i \in DOMAIN EarlierRequests :
          /\ EarlierRequests[i].kind = "http"
          /\ EarlierRequests[i].StatusCode = 429 \/ EarlierRequests[i].StatusCode >= 500
    /\ qPc = "returned" =>
          /\ (qErr = NoError <=>
                 (qRequests # <<>> /\ qRequests[Len(qRequests)] = NoError))
          /\ (qErr.kind = "maxRetries" <=>
                 /\ Len(qRequests) = 4
                 /\ qRequests[4].kind = "http"
                 /\ qRequests[4].StatusCode = 429 \/ qRequests[4].StatusCode >= 500)
          /\ (qErr.kind = "maxRetries" => qErr.wraps = qRequests[4])

\* Two 500 responses and then a success: nil after exactly 3 requests.
C17_Witness ==
    /\ qPc = "returned"
    /\ qRequests = <<HTTPError(500), HTTPError(500), NoError>>
    /\ qErr = NoError

\* C18: a request answered with a 4xx status other than 429 is the call's
\* last, and the call returns that very HTTPError; when it was the answer to
\* the first request the call has made exactly one request.
C18_ClientErrorNotRetried ==
    \A i \in DOMAIN qRequests :
        (/\ qRequests[i].kind = "http"
         /\ qRequests[i].StatusCode \in 400..499
         /\ qRequests[i].StatusCode # 429) =>
            /\ i = Len(qRequests)
            /\ qPc = "returned"
            /\ qErr = qRequests[i]
            /\ qErr.kind = "http" /\ qErr.StatusCode = qRequests[i].StatusCode

\* A 400 response to the first request: one request, HTTPError 400 returned.
C18_Witness ==
    /\ qPc = "returned"
    /\ qRequests = <<HTTPError(400)>>
    /\ qErr = HTTPError(400)
    /\ qAttempt = 0

\* C19: while the call waits in a backoff delay with the context cancelled,
\* its only step is to return the context's error, with no further request;
\* and a call that returned the context's error made no request after the
\* cancellation.
C19_CancelEndsBackoff ==
    [][ (qPc = "backoff" /\ qCancelled) =>
           \/ UNCHANGED <<qPc, qErr, qRequests>>
           \/ (qPc' = "returned" /\ qErr' = ContextCanceled
                  /\ qRequests' = qRequests) ]_vars

\* The context was cancelled in the backoff delay after the second 503: the
\* call has returned the context's error without a third request.
C19_Witness ==
    /\ qPc = "returned"
    /\ qCancelled
    /\ qErr = ContextCanceled
    /\ qRequests = <<HTTPError(503), HTTPError(503)>>
    /\ qAttempt = 2

----------------------------------------------------------------------------
\* Properties of cancellation (checked under SpecCancel).

\* C20: a call made with the context cancelled returns an error, and once the
\* context is cancelled no step of the run changes the sessions in memory but
\* the loading of the state file and the handling of a response that was
\* received before the signal; a cancelled run that got past authentication,
\* state load and scan does not end without having visited every file and
\* made its one save, which on success has written the sessions in memory;
\* and inside the loop a next step always exists.
C20_CancelStopsWatermarks ==
    /\ [][ /\ (cancelled /\ pc \notin {"load", "handle"}) =>
                 (state' = state /\ synced' = synced)
           /\ (cancelled /\ pc = "sync") => resp'.err
           /\ (cancelled /\ pc = "fetch") => conversationsList'.err ]_vars
    /\ [](cancelled /\ pc = "done" /\ fetches = 1 =>
             /\ saves = 1
             /\ visited = ScannedPaths
             /\ (runErr = "" => stateFile = SavedFile(state, runs))
             /\ (runErr # "" => runErr = "save"))
    /\ [](cancelled /\ pc = "done" /\ fetches = 0 =>
             saves = 0 /\ runErr \in {"auth", "state", "scan"})
    /\ [](cancelled /\ InLoop => ENABLED (HashFile \/ DeltaFile \/ SyncFile \/ HandleSync))

----------------------------------------------------------------------------
\* Claims about the content hash (SpecHash).

\* The keys of the members of a JSON object, in the order they are written.
KeysOf(object) == [i \in DOMAIN object |-> object[i].key]

\* C21: CalculateFileHash is deterministic: a second call on the same file
\* returns what the first call returned, the same digest or an error again.
C21_HashIsDeterministic ==
    hPc \in {"twice", "delta"} => hSecond = hFirst

\* C22: the hashed text starts with the metadata line, whose fields are
\* written in the declared order sessionId, userId, projectPath, timestamp,
\* startTime, endTime, messageCount, models, totalTokens; one line per message
\* follows in file order; the lines are joined by single "\n", and nothing
\* follows the last line.
C22_DeclaredFieldOrder ==
    hPc \in {"once", "twice", "delta"} /\ ~hFirst.err =>
        LET text == hFirst.hash[2]
            messages == ReadMessages(hLines)
        IN  /\ Len(text) = 2 * Len(messages) + 1
            /\ KeysOf(text[1]) =
                  <<"sessionId", "userId", "projectPath", "timestamp", "startTime",
                    "endTime", "messageCount", "models", "totalTokens">>
            /\ \A i \in DOMAIN messages :
                  /\ text[2 * i] = "\n"
                  /\ text[2 * i + 1] = MarshalMessage(messages[i])

\* A line yields a uuid and a role under the structured shape, or under the
\* legacy shape.
YieldsStructured(line) ==
    line.kind = "json" /\ line.Msg.shape = "object" /\ line.UUID # "" /\ line.Msg.role # ""

YieldsLegacy(line) ==
    line.kind = "json" /\ line.UUID # "" /\ line.Role # ""

\* The uuid members of the message lines of a hashed text, in order.
HashedUUIDs(text) ==
    [i \in 1..((Len(text) - 1) \div 2) |-> text[2 * i + 1][1].value]

\* C24: every message in the hash input and in a Delta has a non-empty uuid and
\* a non-empty role, and the messages are those of the lines that yield a uuid
\* and a role under the structured or the legacy shape, one each in file order:
\* a line that yields them under neither shape contributes no message.
C24_MessagesHaveUUIDAndRole ==
    LET good == SelectSeq(hLines, LAMBDA line : YieldsStructured(line) \/ YieldsLegacy(line))
        uuids == [i \in DOMAIN good |-> good[i].UUID]
    IN  /\ (hPc \in {"once", "twice", "delta"} /\ ~hFirst.err) =>
              LET text == hFirst.hash[2]
              IN  /\ HashedUUIDs(text) = uuids
                  /\ \A i \in 1..((Len(text) - 1) \div 2) :
                        LET members == text[2 * i + 1]
                        IN  /\ members[1].key = "uuid" /\ members[1].value # ""
                            /\ members[3].key = "role" /\ members[3].value # ""
        /\ (hPc \in {"once", "twice", "delta"} /\ hOpen) => (hFirst.err <=> good = <<>>)
        /\ (hPc = "delta" /\ hOpen) =>
              /\ ~hDelta.err
              /\ hDelta.isNil <=> good = <<>>
              /\ ~hDelta.isNil =>
                    /\ [i \in DOMAIN hDelta.Messages |-> hDelta.Messages[i].UUID] = uuids
                    /\ \A i \in DOMAIN hDelta.Messages :
                          hDelta.Messages[i].UUID # "" /\ hDelta.Messages[i].Role # ""

\* A file of three lines was hashed and read: a structured line without a role
\* anywhere, a line whose role is found only by the legacy decoding, and a
\* structured line; the Delta holds the last two.
C24_Witness ==
    /\ hPc = "delta" /\ hOpen
    /\ Len(hLines) = 3
    /\ ~YieldsStructured(hLines[1]) /\ ~YieldsLegacy(hLines[1]) /\ hLines[1].kind = "json"
    /\ ~YieldsStructured(hLines[2]) /\ YieldsLegacy(hLines[2])
    /\ YieldsStructured(hLines[3])
    /\ ~hFirst.err
    /\ ~hDelta.isNil
    /\ [i \in DOMAIN hDelta.Messages |-> hDelta.Messages[i].UUID] = <<hLines[2].UUID, hLines[3].UUID>>

----------------------------------------------------------------------------
\* Claims about the scanner (SpecScan).

\* The log files of a tree with, for each, whether a directory on the way to
\* it cannot be read and whether a directory below the root on the way to it
\* has a name that starts with a dot and is not ".claude".
RECURSIVE LogFilesBelow(_, _, _, _)
LogFilesBelow(path, entry, unreadable, hidden) ==
    IF ~entry.isDir
    THEN IF HasSuffix(entry.name, JSONLSuffix)
         THEN {[Path |-> path, unreadable |-> unreadable, hidden |-> hidden]}
         ELSE {}
    ELSE UNION {LogFilesBelow(Join(path, entry.entries[k].name), entry.entries[k],
                              unreadable \/ entry.entries[k].stat # "ok",
                              hidden \/ (/\ entry.entries[k].isDir
                                         /\ HasPrefix(entry.entries[k].name, <<".">>)
                                         /\ entry.entries[k].name # DotClaude)) :
                k \in DOMAIN entry.entries}

LogFiles == LogFilesBelow(wBase, wRoot, wRoot.stat # "ok", FALSE)

ReturnedPaths == {wFiles[i].Path : i \in DOMAIN wFiles}

\* C26: ScanForJSONL returns an error exactly when the root cannot be read, and
\* runSync then returns before the file loop; a directory below the root that
\* cannot be read gives no error and the log files outside it are returned.
C26_OnlyRootFailureIsFatal ==
    /\ wPc \in {"scanned", "checked"} =>
          /\ wErr <=> wRoot.stat # "ok"
          /\ (wRoot.stat = "ok" /\ wPatterns = <<>>) =>
                \A f \in LogFiles : (~f.unreadable /\ ~f.hidden) => f.Path \in ReturnedPaths
    /\ wPc = "checked" => (wRun = "aborted" <=> wRoot.stat # "ok")

\* C27: with no exclude pattern and every directory readable, the log files
\* returned are those with no directory on the way from the root to them whose
\* name starts with a dot and is not ".claude"; the name of the root itself
\* does not count.
C27_DotDirectoriesSkipped ==
    (wPc \in {"scanned", "checked"} /\ wPatterns = <<>>
        /\ \A f \in LogFiles : ~f.unreadable) =>
        ReturnedPaths = {f.Path : f \in {g \in LogFiles : ~g.hidden}}

\* The log files that reach the exclusion test: those returned when there is
\* no pattern.
Candidates == ScanDirectory(wBase, <<>>, wRoot).files

\* C28: a candidate log file is left out exactly when some pattern matches its
\* base name as a glob or occurs in its full path; the others are returned in
\* walk order.  With the pattern "exclude-me*", keep.jsonl is returned and
\* exclude-me.jsonl is not; the pattern "keep" leaves out keep.jsonl, and the
\* pattern "proj" every file below the directory proj.
C28_ExcludedByGlobOrSubstring ==
    wPc \in {"scanned", "checked"} =>
        LET keep == Join(wBase, <<"k", "e", "e", "p", ".", "j", "s", "o", "n", "l">>)
            excl == Join(wBase, <<"e", "x", "c", "l", "u", "d", "e", "-", "m", "e", ".", "j", "s", "o", "n", "l">>)
            below == Join(Join(wBase, <<"p", "r", "o", "j">>), <<"b", ".", "j", "s", "o", "n", "l">>)
            reached == {Candidates[i].Path : i \in DOMAIN Candidates}
        IN  /\ wFiles = SelectSeq(Candidates,
                           LAMBDA f : ~\E i \in DOMAIN wPatterns :
                                         \/ Match(wPatterns[i], Base(f.Path))
                                         \/ Contains(f.Path, wPatterns[i]))
            /\ (wPatterns = <<<<"e", "x", "c", "l", "u", "d", "e", "-", "m", "e", "*">>>> /\ {keep, excl} \subseteq reached) =>
                   keep \in ReturnedPaths /\ excl \notin ReturnedPaths
            /\ (wPatterns = <<<<"k", "e", "e", "p">>>> /\ {keep, excl} \subseteq reached) =>
                   keep \notin ReturnedPaths /\ excl \in ReturnedPaths
            /\ (wPatterns = <<<<"p", "r", "o", "j">>>> /\ {keep, below} \subseteq reached) =>
                   /\ below \notin ReturnedPaths
                   /\ keep \in ReturnedPaths <=> wBase # <<"/", "d", "/", "p", "r", "o", "j", "e", "c", "t", "s">>

\* The scan with the pattern "exclude-me*" has returned keep.jsonl and a file
\* of the project directory, and not exclude-me.jsonl.
C28_Witness ==
    /\ wPc = "scanned"
    /\ wPatterns = <<<<"e", "x", "c", "l", "u", "d", "e", "-", "m", "e", "*">>>>
    /\ Join(wBase, <<"k", "e", "e", "p", ".", "j", "s", "o", "n", "l">>) \in ReturnedPaths
    /\ Join(Join(wBase, <<"p", "r", "o", "j">>), <<"b", ".", "j", "s", "o", "n", "l">>) \in ReturnedPaths
    /\ Join(wBase, <<"e", "x", "c", "l", "u", "d", "e", "-", "m", "e", ".", "j", "s", "o", "n", "l">>) \notin ReturnedPaths
    /\ \E i \in DOMAIN Candidates : Candidates[i].Path = Join(wBase, <<"e", "x", "c", "l", "u", "d", "e", "-", "m", "e", ".", "j", "s", "o", "n", "l">>)

----------------------------------------------------------------------------
\* Claims about overlapping runs (SpecRace).

\* C30: once both runs have ended, the file at the state path is a complete
\* state that LoadState parses, and for every session whose watermark one of
\* the runs advanced it holds that watermark or a later one.
C30_OverlappingRunsKeepWatermarks ==
    (\A p \in RaceRuns : cPc[p] = "done") =>
        LET r == LoadState(ContentAt(cInodes, cNames.target))
        IN  /\ ~r.err
            /\ \A p \in RaceRuns : \A a \in cAdvanced[p] :
                  UUIDIndex(GetLastSyncedUUID(r.Sessions, a[1])) >= a[2]

----------------------------------------------------------------------------
\* Further properties of runSync (checked under Spec).

\* ---------------------------------------------------------------------
\* The device flow: DeviceFlow.PollForToken.
\* ---------------------------------------------------------------------

\* Largest number of exchanges of one PollForToken call that are explored.
MaxPolls == 3

\* Minimum poll interval and the slow_down increment, in seconds.
MinPollInterval == 5
SlowDownStep == 5

\* Values of the interval argument (the device authorization response's
\* "interval", in seconds).
Intervals == {-1, 0, 1, 5, 7}

\* The fields of TokenResponse that PollForToken reads or returns.
DeviceTokenResponse(accessToken, error) ==
    [AccessToken |-> accessToken, Error |-> error]

\* Bodies the token endpoint answers with.
PollResponses ==
    {DeviceTokenResponse("", "authorization_pending"),
     DeviceTokenResponse("", "slow_down"),
     DeviceTokenResponse("", "expired_token"),
     DeviceTokenResponse("", "access_denied"),
     DeviceTokenResponse("", "invalid_grant"),
     DeviceTokenResponse("access-1", ""),
     DeviceTokenResponse("", "")}

\* exchangeDeviceCode failed: the request, the read or the decoding.
ExchangeError == [failed |-> TRUE]

PollResult(token, err) == [token |-> token, err |-> err]
NoToken == [nil |-> TRUE]

\* pollInterval after the clamp at the head of PollForToken.
ClampInterval(interval) ==
    IF interval < MinPollInterval THEN MinPollInterval ELSE interval

\* Variant: a slow_down answer is treated like access_denied.
PollOutcome_slowDownEnds(tokenResp, interval) ==
    IF tokenResp.Error = ""
    THEN [continue |-> FALSE, interval |-> interval, res |-> PollResult(tokenResp, "")]
    ELSE IF tokenResp.Error = "authorization_pending"
    THEN [continue |-> TRUE, interval |-> interval, res |-> Unset]
    ELSE [continue |-> FALSE, interval |-> interval,
          res |-> PollResult(NoToken, "authorization denied by user")]

\* Variant: slow_down restarts the ticker at the minimum interval.
PollOutcome_slowDownResets(tokenResp, interval) ==
    IF tokenResp.Error = ""
    THEN [continue |-> FALSE, interval |-> interval, res |-> PollResult(tokenResp, "")]
    ELSE IF tokenResp.Error = "authorization_pending"
    THEN [continue |-> TRUE, interval |-> interval, res |-> Unset]
    ELSE IF tokenResp.Error = "slow_down"
    THEN [continue |-> TRUE, interval |-> MinPollInterval, res |-> Unset]
    ELSE IF tokenResp.Error = "expired_token"
    THEN [continue |-> FALSE, interval |-> interval,
          res |-> PollResult(NoToken, "device code expired, please try again")]
    ELSE IF tokenResp.Error = "access_denied"
    THEN [continue |-> FALSE, interval |-> interval,
          res |-> PollResult(NoToken, "authorization denied by user")]
    ELSE [continue |-> FALSE, interval |-> interval,
          res |-> PollResult(NoToken, "token exchange error")]

\* What the loop body does with a decoded response: return it, go round
\* again (with the interval to use from now on), or return an error.
PollOutcome(tokenResp, interval) ==
    IF tokenResp.Error = ""
    THEN [continue |-> FALSE, interval |-> interval, res |-> PollResult(tokenResp, "")]
    ELSE IF tokenResp.Error = "authorization_pending"
    THEN [continue |-> TRUE, interval |-> interval, res |-> Unset]
    ELSE IF tokenResp.Error = "slow_down"
    THEN [continue |-> TRUE, interval |-> interval + SlowDownStep, res |-> Unset]
    ELSE IF tokenResp.Error = "expired_token"
    THEN [continue |-> FALSE, interval |-> interval,
          res |-> PollResult(NoToken, "device code expired, please try again")]
    ELSE IF tokenResp.Error = "access_denied"
    THEN [continue |-> FALSE, interval |-> interval,
          res |-> PollResult(NoToken, "authorization denied by user")]
    ELSE [continue |-> FALSE, interval |-> interval,
          res |-> PollResult(NoToken, "token exchange error")]

\* Before the call: oInterval holds the interval argument, no ticker yet.
InitPoll ==
    /\ InitRun
    /\ dLines = <<>> /\ dLast = "" /\ dOpen = TRUE
    /\ dOut = Unset /\ dNew = <<>> /\ dPhase = "off"
    /\ StoreOff
    /\ RetryOff
    /\ HashOff
    /\ ScanOff
    /\ LoginOff
    /\ RaceOff
    /\ TokensOff
    /\ oPc = "start"
    /\ oInterval \in Intervals
    /\ oPeriod = 0
    /\ oPolls = <<>>
    /\ oDone = FALSE
    /\ oRes = Unset

\* The head of PollForToken: the clamp and time.NewTicker.
StartPolling ==
    /\ oPc = "start"
    /\ oInterval' = ClampInterval(oInterval)
    /\ oPeriod' = ClampInterval(oInterval)
    /\ oPc' = "select"
    /\ UNCHANGED <<oPolls, oDone, oRes,
                   runVars, deltaVars, storeVars, retryVars,
                   hashVars, scanVars, loginVars, raceVars, tokenVars>>

\* The caller's context is cancelled or reaches its deadline.
ContextDone ==
    /\ oPc \in {"start", "select", "exchange"}
    /\ ~oDone
    /\ oDone' = TRUE
    /\ UNCHANGED <<oPc, oInterval, oPeriod, oPolls, oRes,
                   runVars, deltaVars, storeVars, retryVars,
                   hashVars, scanVars, loginVars, raceVars, tokenVars>>

\* select takes the ctx.Done() case.
SelectDone ==
    /\ oPc = "select"
    /\ oDone
    /\ oRes' = PollResult(NoToken, "context done")
    /\ oPc' = "done"
    /\ UNCHANGED <<oInterval, oPeriod, oPolls, oDone,
                   runVars, deltaVars, storeVars, retryVars,
                   hashVars, scanVars, loginVars, raceVars, tokenVars>>

\* select takes the ticker case (also possible when the context is done and
\* a tick is ready: select then picks either case) and exchangeDeviceCode is
\* called.  With the context already done the HTTP client refuses the
\* request.
SelectTick ==
    /\ oPc = "select"
    /\ Len(oPolls) < MaxPolls
    /\ oPc' = IF oDone THEN "refused" ELSE "exchange"
    /\ UNCHANGED <<oInterval, oPeriod, oPolls, oDone, oRes,
                   runVars, deltaVars, storeVars, retryVars,
                   hashVars, scanVars, loginVars, raceVars, tokenVars>>

\* exchangeDeviceCode returns an error: always when the context was done
\* before the request, possibly otherwise.  PollForToken returns it.
ExchangeFails ==
    /\ oPc \in {"exchange", "refused"}
    /\ oPolls' = Append(oPolls, ExchangeError)
    /\ oRes' = PollResult(NoToken, "exchange failed")
    /\ oPc' = "done"
    /\ UNCHANGED <<oInterval, oPeriod, oDone,
                   runVars, deltaVars, storeVars, retryVars,
                   hashVars, scanVars, loginVars, raceVars, tokenVars>>

\* exchangeDeviceCode returns a decoded response and the loop body acts on
\* it; slow_down also resets the ticker to the new interval.  The context
\* is not looked at here: it may have ended while the exchange was under way.
ExchangeAnswers(tokenResp) ==
    /\ oPc = "exchange"
    /\ LET out == PollOutcome(tokenResp, oInterval)
       IN  /\ oPolls' = Append(oPolls, tokenResp)
           /\ oInterval' = out.interval
           /\ oPeriod' = IF tokenResp.Error = "slow_down" THEN out.interval ELSE oPeriod
           /\ oRes' = out.res
           /\ oPc' = IF out.continue THEN "select" ELSE "done"
    /\ UNCHANGED <<oDone,
                   runVars, deltaVars, storeVars, retryVars,
                   hashVars, scanVars, loginVars, raceVars, tokenVars>>

NextPoll ==
    \/ StartPolling
    \/ ContextDone
    \/ SelectDone
    \/ SelectTick
    \/ ExchangeFails
    \/ \E tokenResp \in PollResponses : ExchangeAnswers(tokenResp)

SpecPoll == InitPoll /\ [][NextPoll]_vars

\* C31: the watermark with which a file's delta is extracted, and the one its
\* upload is about to replace, is empty or the uuid of a message of that same
\* file (as the last message of a delta extracted from the file is).
C31_WatermarkOfSameFile ==
    pc \in {"delta", "sync", "handle"} =>
        LET lastUUID == GetLastSyncedUUID(state, CurrentFile.SessionID)
        IN  \/ lastUUID = ""
            \/ lastUUID \in UUIDsOf(ReadMessages(FileLines(idx)))

\* C32: the handling of an upload's result (an error or a response) records
\* the file in exactly one of two ways: the watermark of its session set to the last uploaded uuid and
\* synced + 1, or the state unchanged and errors + 1; an upload that returned
\* an error or a response without success is recorded in the second way.
C32_UploadCountedOnce ==
    [][ (pc = "handle" /\ resp # NilResponse) =>
          LET sid == CurrentFile.SessionID
              delivered == /\ sid \in DOMAIN state'
                           /\ state'[sid].LastSyncedUUID = delta.NewLastUUID
                           /\ synced' = synced + 1
                           /\ errors' = errors
              failed == /\ state' = state
                        /\ synced' = synced
                        /\ errors' = errors + 1
          IN  /\ delivered \/ failed
              /\ (resp.err \/ ~resp.Success) => failed ]_vars

\* C33: when the hash comparison let a file through and CalculateDelta returns
\* nil for it, the iteration ends there: no upload result, the state, the state
\* file and the three counters unchanged, the loop at the next file or at the
\* save.
C33_NoNewMessagesIsSilent ==
    [][ (pc = "delta" /\ delta' = NilDelta) =>
           /\ ~localHash.err
           /\ ConversationNeedsSync(localHash.hash, remoteHashes[CurrentFile.SessionID])
           /\ resp' = Unset
           /\ state' = state /\ stateFile' = stateFile
           /\ synced' = synced /\ skipped' = skipped /\ errors' = errors
           /\ confirmed' = confirmed
           /\ idx' = idx + 1
           /\ pc' = IF idx < Len(files) THEN "hash" ELSE "save" ]_vars

\* A file whose session has a watermark on its last message, and whose hash
\* the server listed differently, went through the loop without new messages:
\* no counter moved in the run so far.
C33_Witness ==
    /\ pc \in {"hash", "save"}
    /\ idx = 2
    /\ delta = NilDelta
    /\ resp = Unset
    /\ ~localHash.err
    /\ remoteHashes[files[1].SessionID] # EmptyHash
    /\ localHash.hash # remoteHashes[files[1].SessionID]
    /\ state[files[1].SessionID].LastSyncedUUID = "a2"
    /\ synced = 0 /\ skipped = 0 /\ errors = 0

\* C34: an error of GetConversations is no error of the run: the call can
\* fail, its return does not end the run, and the step that handles a failed
\* call ends in the loop or, without files, at the save, with the empty
\* remote-hash map.  With the empty remote-hash map no file is counted as
\* skipped and every file whose hash could be computed goes on to
\* CalculateDelta, called with the watermark held for the file's session.
C34_ListingFailureIsNotFatal ==
    [][ /\ (pc = "fetch" /\ fetches' # fetches) =>
              /\ [err |-> TRUE] \in ConversationListings(cancelled)
              /\ pc' = "listed"
              /\ runErr' = ""
        /\ (pc = "listed" /\ pc' # pc /\ conversationsList.err) =>
              /\ runErr' = ""
              /\ pc' = IF Len(files) = 0 THEN "save" ELSE "hash"
              /\ remoteHashes' = NoListing
        /\ (InLoop /\ remoteHashes = NoListing) => skipped' = 0
        /\ (pc = "hash" /\ visited' # visited
               /\ remoteHashes = NoListing /\ ~localHash'.err) =>
              /\ pc' = "delta"
              /\ idx' = idx
        /\ (pc = "delta" /\ remoteHashes = NoListing /\ delta' # delta /\ ~delta'.err) =>
              delta' = CalculateDelta(CurrentFile, FileLines(idx), TRUE,
                                      GetLastSyncedUUID(state, CurrentFile.SessionID)) ]_vars

\* A run whose remote-hash map stayed empty is at the save: the three files
\* were hashed and uploaded, none was skipped, and the state held a watermark
\* when the last delta was extracted.
C34_Witness ==
    /\ pc = "save"
    /\ fetches = 1
    /\ remoteHashes = NoListing
    /\ Len(files) = 3
    /\ visited = ScannedPaths
    /\ skipped = 0 /\ errors = 0 /\ synced = 3
    /\ runs = 2

----------------------------------------------------------------------------
\* The credential store: the keychain, the token file and the FallbackStore
\* over them.  Error texts are sequences of characters, <<>> for a nil error.

NilError == <<>>

\* Errors of the keyring library: a missing item, no session bus, no secret
\* service on the bus, an item too large for the keychain.
ErrNotFound ==
    <<"s", "e", "c", "r", "e", "t", " ", "n", "o", "t", " ", "f", "o", "u", "n", "d", " ", "i",
    "n", " ", "k", "e", "y", "r", "i", "n", "g">>
ErrNoSessionBus ==
    <<"d", "b", "u", "s", ":", " ", "c", "o", "u", "l", "d", "n", "'", "t", " ", "d", "e", "t",
    "e", "r", "m", "i", "n", "e", " ", "a", "d", "d", "r", "e", "s", "s", " ", "o", "f",
    " ", "s", "e", "s", "s", "i", "o", "n", " ", "b", "u", "s">>
ErrNoService ==
    <<"T", "h", "e", " ", "n", "a", "m", "e", " ", "o", "r", "g", ".", "f", "r", "e", "e", "d",
    "e", "s", "k", "t", "o", "p", ".", "s", "e", "c", "r", "e", "t", "s", " ", "w", "a",
    "s", " ", "n", "o", "t", " ", "p", "r", "o", "v", "i", "d", "e", "d", " ", "b", "y",
    " ", "a", "n", "y", " ", ".", "s", "e", "r", "v", "i", "c", "e", " ", "f", "i", "l",
    "e", "s">>
ErrSetDataTooBig ==
    <<"d", "a", "t", "a", " ", "p", "a", "s", "s", "e", "d", " ", "t", "o", " ", "S", "e", "t",
    " ", "w", "a", "s", " ", "t", "o", "o", " ", "b", "i", "g">>

\* Texts of errors made by the stores themselves.
ErrNoRefreshToken ==
    <<"n", "o", " ", "r", "e", "f", "r", "e", "s", "h", " ", "t", "o", "k", "e", "n", " ", "s",
    "t", "o", "r", "e", "d">>
ErrNoTokens ==
    <<"n", "o", " ", "t", "o", "k", "e", "n", "s", " ", "s", "t", "o", "r", "e", "d">>
ErrDecrypt ==
    <<"d", "e", "c", "r", "y", "p", "t", "i", "n", "g", " ", "t", "o", "k", "e", "n", "s", ":", " ", "c", "i", "p", "h", "e", "r", "t", "e", "x", "t", " ", "t", "o", "o", " ", "s", "h", "o", "r", "t">>
ErrWriteTorn ==
    <<"w", "r", "i", "t", "i", "n", "g", " ", "t", "o", "k", "e", "n", " ", "f", "i", "l", "e", ":", " ", "n", "o", " ", "s", "p", "a", "c", "e", " ", "l", "e", "f", "t", " ", "o", "n", " ", "d", "e", "v", "i", "c", "e">>
ErrRemoveFile ==
    <<"r", "e", "m", "o", "v", "i", "n", "g", " ", "t", "o", "k", "e", "n", " ", "f", "i", "l", "e", ":", " ", "p", "e", "r", "m", "i", "s", "s", "i", "o", "n", " ", "d", "e", "n", "i", "e", "d">>
ErrWriteFile ==
    <<"w", "r", "i", "t", "i", "n", "g", " ", "t", "o", "k", "e", "n", " ", "f", "i", "l", "e",
    ":", " ", "p", "e", "r", "m", "i", "s", "s", "i", "o", "n", " ", "d", "e", "n", "i",
    "e", "d">>

\* The state the keyring service is in during an operation: working, without
\* a session bus, without a secret service, or refusing the larger item.
KeyringConditions == {"up", "nobus", "noservice", "tooBig"}

\* The conditions that make a difference to a call: a value is too big only
\* for a Set of the token meta.
ConditionsOf(call, key) ==
    IF call = "Set" /\ key = "token_meta" THEN KeyringConditions
    ELSE KeyringConditions \ {"tooBig"}

\* The error every keyring call ends with in that state, NilError if none.
KeyringFailure(cond) ==
    IF cond = "nobus" THEN ErrNoSessionBus
    ELSE IF cond = "noservice" THEN ErrNoService
    ELSE NilError

\* TokenMeta, the value of the item "token_meta" (its JSON text holds the two
\* fields and is parsed back into them).
TokenMeta(expiresAt, refreshToken) ==
    [ExpiresAt |-> expiresAt, RefreshToken |-> refreshToken]

\* The keychain items of the service: none stored.
EmptyKeychain ==
    [access_token |-> [present |-> FALSE, value |-> ""],
     token_meta |-> [present |-> FALSE, value |-> TokenMeta(0, "")]]

\* keyring.Get, keyring.Set and keyring.Delete.
KeyringGet(kc, cond, key) ==
    IF KeyringFailure(cond) # NilError THEN [err |-> KeyringFailure(cond), value |-> kc[key].value]
    ELSE IF ~kc[key].present THEN [err |-> ErrNotFound, value |-> kc[key].value]
    ELSE [err |-> NilError, value |-> kc[key].value]

KeyringSet(kc, cond, key, value) ==
    LET failure == IF cond = "tooBig" /\ key = "token_meta" THEN ErrSetDataTooBig
                   ELSE KeyringFailure(cond)
    IN  IF failure # NilError THEN [err |-> failure, kc |-> kc]
        ELSE [err |-> NilError,
              kc |-> [kc EXCEPT ![key] = [present |-> TRUE, value |-> value]]]

KeyringDelete(kc, cond, key) ==
    IF KeyringFailure(cond) # NilError THEN kc
    ELSE [kc EXCEPT ![key] = EmptyKeychain[key]]

\* A token endpoint's response: the fields the stores read.
TokenGrant(accessToken, refreshToken, expiresIn) ==
    [AccessToken |-> accessToken, RefreshToken |-> refreshToken, ExpiresIn |-> expiresIn]

NoGrant == TokenGrant("", "", 0)

\* What KeychainStore puts in front of the error of a call of the keyring.
SavingAccessToken ==
    <<"s", "a", "v", "i", "n", "g", " ", "a", "c", "c", "e", "s", "s", " ", "t", "o", "k",
    "e", "n", " ", "t", "o", " ", "k", "e", "y", "c", "h", "a", "i", "n", ":", " ">>
SavingTokenMeta ==
    <<"s", "a", "v", "i", "n", "g", " ", "t", "o", "k", "e", "n", " ", "m", "e", "t", "a",
    " ", "t", "o", " ", "k", "e", "y", "c", "h", "a", "i", "n", ":", " ">>
GettingAccessToken ==
    <<"g", "e", "t", "t", "i", "n", "g", " ", "a", "c", "c", "e", "s", "s", " ", "t", "o",
    "k", "e", "n", " ", "f", "r", "o", "m", " ", "k", "e", "y", "c", "h", "a", "i", "n",
    ":", " ">>
GettingTokenMeta ==
    <<"g", "e", "t", "t", "i", "n", "g", " ", "t", "o", "k", "e", "n", " ", "m", "e", "t",
    "a", " ", "f", "r", "o", "m", " ", "k", "e", "y", "c", "h", "a", "i", "n", ":", " ">>

\* KeychainStore.  SaveTokens makes two calls of the keyring, and computes the
\* expiry from the clock when the first has returned.
KeychainSaveAccessToken(kc, cond, accessToken) ==
    LET r == KeyringSet(kc, cond, "access_token", accessToken)
    IN  IF r.err # NilError
        THEN [err |-> SavingAccessToken \o r.err,
              kc |-> r.kc]
        ELSE [err |-> NilError, kc |-> r.kc]

KeychainSaveTokenMeta(kc, cond, tokenResp, now) ==
    LET r == KeyringSet(kc, cond, "token_meta",
                        TokenMeta(now + tokenResp.ExpiresIn, tokenResp.RefreshToken))
    IN  IF r.err # NilError
        THEN [err |-> SavingTokenMeta \o r.err,
              kc |-> r.kc]
        ELSE [err |-> NilError, kc |-> r.kc]

KeychainGetAccessToken(kc, cond) ==
    LET r == KeyringGet(kc, cond, "access_token")
    IN  IF r.err # NilError
        THEN [err |-> GettingAccessToken \o r.err,
              token |-> ""]
        ELSE [err |-> NilError, token |-> r.value]

KeychainGetTokenMeta(kc, cond) ==
    LET r == KeyringGet(kc, cond, "token_meta")
    IN  IF r.err # NilError
        THEN [err |-> GettingTokenMeta \o r.err,
              meta |-> r.value]
        ELSE [err |-> NilError, meta |-> r.value]

KeychainIsTokenExpired(kc, cond, now) ==
    LET r == KeychainGetTokenMeta(kc, cond)
    IN  IF r.err # NilError THEN TRUE ELSE now >= r.meta.ExpiresAt - 60

KeychainGetRefreshToken(kc, cond) ==
    LET r == KeychainGetTokenMeta(kc, cond)
    IN  IF r.err # NilError THEN [err |-> r.err, token |-> ""]
        ELSE IF r.meta.RefreshToken = "" THEN [err |-> ErrNoRefreshToken, token |-> ""]
        ELSE [err |-> NilError, token |-> r.meta.RefreshToken]

\* The token file at its path: absent, empty (opened for writing and cut to
\* nothing), holding the fileTokenData written to it (it is written encrypted
\* and read back decrypted with the same key), or holding bytes that do not
\* decrypt (a part of a text, or a text over the end of a longer one).
NoTokenFile == [kind |-> "absent", AccessToken |-> "", RefreshToken |-> "", ExpiresAt |-> 0]
EmptyFile == [kind |-> "empty", AccessToken |-> "", RefreshToken |-> "", ExpiresAt |-> 0]
DamagedFile == [kind |-> "garbled", AccessToken |-> "", RefreshToken |-> "", ExpiresAt |-> 0]
TokenFile(accessToken, refreshToken, expiresAt) ==
    [kind |-> "tokens", AccessToken |-> accessToken, RefreshToken |-> refreshToken,
     ExpiresAt |-> expiresAt]

\* FileStore.  os.WriteFile opens the file at the path, creating it or cutting
\* it to nothing, and then writes through the descriptor.
FileOpen(file, disk) ==
    IF disk = "refused" THEN [err |-> ErrWriteFile, file |-> file]
    ELSE [err |-> NilError, file |-> EmptyFile]

\* How a write through a descriptor can end: the text is in the file; the text
\* lies over the start of a longer text that was written meanwhile (the length
\* of a text depends on the tokens and on the digits of its time stamp); the
\* write fails part of the way.
WriteOutcomes(file, fd) ==
    {"written", "torn"} \cup
    (IF fd = "linked" /\ file.kind \in {"tokens", "garbled"} THEN {"short"} ELSE {})

\* The file at the path after the write; a descriptor whose file was removed
\* from the path meanwhile writes to a file no path leads to.
FileWrite(file, fd, outcome, data) ==
    [err |-> IF outcome = "torn" THEN ErrWriteTorn ELSE NilError,
     file |-> IF fd = "unlinked" THEN file
              ELSE IF outcome = "written" THEN data
              ELSE DamagedFile]

loadTokens(file) ==
    IF file.kind = "absent" THEN [err |-> ErrNoTokens, data |-> file]
    ELSE IF file.kind # "tokens" THEN [err |-> ErrDecrypt, data |-> file]
    ELSE [err |-> NilError, data |-> file]

FileGetAccessToken(file) ==
    [err |-> loadTokens(file).err, token |-> loadTokens(file).data.AccessToken]

FileGetTokenMeta(file) ==
    [err |-> loadTokens(file).err,
     meta |-> TokenMeta(loadTokens(file).data.ExpiresAt, loadTokens(file).data.RefreshToken)]

FileIsTokenExpired(file, now) ==
    IF loadTokens(file).err # NilError THEN TRUE
    ELSE now >= loadTokens(file).data.ExpiresAt - 60

FileGetRefreshToken(file) ==
    IF loadTokens(file).err # NilError THEN [err |-> loadTokens(file).err, token |-> ""]
    ELSE IF loadTokens(file).data.RefreshToken = "" THEN [err |-> ErrNoRefreshToken, token |-> ""]
    ELSE [err |-> NilError, token |-> loadTokens(file).data.RefreshToken]

FileClear(file, disk) ==
    IF file.kind # "absent" /\ disk = "refused" THEN [err |-> ErrRemoveFile, file |-> file]
    ELSE [err |-> NilError, file |-> NoTokenFile]

\* The test the FallbackStore's methods make on a keychain error.
IsBusError(err) ==
    \/ Contains(err, <<"d", "b", "u", "s">>)
    \/ Contains(err, <<"s", "e", "s", "s", "i", "o", "n", " ", "b", "u", "s">>)

\* The test NewTokenStore makes on the error of its probe.
KeychainUnavailable(err) ==
    /\ err # NilError
    /\ \/ IsBusError(err)
       \/ Contains(err, <<"k", "e", "y", "r", "i", "n", "g">>)
       \/ Contains(err, <<"S", "e", "c", "r", "e", "t", " ", "S", "e", "r", "v", "i", "c", "e">>)

\* The two fields of a FallbackStore: primary is whether fs.primary is not nil.
FallbackStore(primary, usingFile) == [primary |-> primary, usingFile |-> usingFile]

\* Variant: the switch forgets the flag.
SwitchToFile_noFlag(store) == [store EXCEPT !.primary = FALSE]

\* fs.primary = nil; fs.usingFile = true.
SwitchToFile(store) == [store EXCEPT !.primary = FALSE, !.usingFile = TRUE]

\* The store after a call of the primary that ended with err.
AfterPrimary(store, err) ==
    IF err # NilError /\ IsBusError(err) THEN SwitchToFile(store) ELSE store

\* NewTokenStore: the probe of the keychain decides the mode.
NewTokenStore(kc, cond) ==
    LET probe == KeychainGetAccessToken(kc, cond)
    IN  FallbackStore(~KeychainUnavailable(probe.err), KeychainUnavailable(probe.err))

\* Results of Manager.GetValidToken: err is "" for nil; source is the store
\* the returned token was read from, or "refresh" for a refreshed token;
\* checked is the time at which IsTokenExpired answered that the stored token
\* is not expired (0 when it did not).
TokenResult(token, err, source, checked) ==
    [op |-> "GetValidToken", token |-> token, err |-> err, source |-> source,
     checked |-> checked]

----------------------------------------------------------------------------
\* The credential store in use.  A command's process creates the store, logs
\* in, asks for a valid token, reads the token meta or logs out; commands of
\* other processes log in or out meanwhile on stores of their own; time
\* passes.  Every call of the keyring and of the file system is a step.

\* Number of token responses the identity provider issues.
MaxGrants == 2
\* The last second of the clock.
MaxClock == 3600
\* The lifetime of an access token, in seconds.
TokenLifetime == 3600

\* The clock is looked at again when 60 seconds of the lifetime are left.
TimeSteps == {TokenLifetime - 60}

AccessTokens == <<"access-1", "access-2", "access-3", "access-4">>
RefreshTokens == <<"refresh-1", "refresh-2", "refresh-3", "refresh-4">>

\* What pkceFlow.RefreshToken can return for the n-th grant: an error, or the
\* parsed response; refresh_token may be missing from it.
RefreshOutcomes(n) ==
    {[err |-> TRUE, resp |-> TokenGrant("", "", 0)]} \cup
    (IF n <= MaxGrants /\ n <= Len(AccessTokens)
     THEN {[err |-> FALSE, resp |-> TokenGrant(AccessTokens[n], refreshToken, expiresIn)] :
              refreshToken \in {"", RefreshTokens[n]}, expiresIn \in {TokenLifetime}}
     ELSE {})

\* The process of the command under study, and the one other commands run in.
Procs == {"own", "other"}

\* A call in progress: the position in it, the caller SaveTokens returns to,
\* the tokens being saved, whether the result of the file store is the result
\* of SaveTokens, the expiry computed for the file, the descriptor os.WriteFile
\* holds ("linked" while the path leads to its file), the refresh token sent
\* to the token endpoint, and the time at which IsTokenExpired answered false.
Idle ==
    [pc |-> "idle", ret |-> "", grant |-> NoGrant, fallback |-> FALSE, stamp |-> 0,
     fd |-> "none", sent |-> "", checked |-> 0]

\* The position of a process between two commands.
Rest(p) == IF p = "own" THEN Idle ELSE [Idle EXCEPT !.pc = "off"]

\* The position at which a process calls Manager.Logout.
LogoutAt(p) == IF p = "own" THEN "idle" ELSE "logout"

\* tCall after a step of p; a removal of the token file takes the path away
\* from every open descriptor.
Calls(p, call, removed) ==
    [q \in Procs |->
        IF q = p THEN call
        ELSE IF removed /\ tCall[q].fd = "linked" THEN [tCall[q] EXCEPT !.fd = "unlinked"]
        ELSE tCall[q]]

\* The step of p was taken with or without a call of the keyring, and returned
\* res to the command under study (Working: nothing was returned to it).
Working == [op |-> "step"]

Took(p, touched, res) ==
    /\ tTouched' = touched
    /\ tRes' = IF p = "own" THEN res ELSE Working

SetStore(p, store) ==
    /\ tPrimary' = [tPrimary EXCEPT ![p] = store.primary]
    /\ tUsingFile' = [tUsingFile EXCEPT ![p] = store.usingFile]

\* The store of a process that is not running: none, written as a store that
\* was never switched.
NoStore == [primary |-> TRUE, usingFile |-> FALSE]

\* The command of p returns: the process of another command ends, and its store
\* with it.
EndCommand(p) == IF p = "own" THEN UNCHANGED <<tPrimary, tUsingFile>> ELSE SetStore(p, NoStore)

StoreOf(p) == FallbackStore(tPrimary[p], tUsingFile[p])

\* What the caller of SaveTokens returns when SaveTokens returned err:
\* Manager.Login, or Manager.GetValidToken after a refresh.
SaveResult(call, err) ==
    IF call.ret = "login" THEN [op |-> "SaveTokens", err |-> err]
    ELSE IF err # NilError THEN TokenResult("", "saving refreshed tokens", "", 0)
    ELSE TokenResult(call.grant.AccessToken, "", "refresh", 0)

\* A call of the process of the command returns res to its caller: to
\* Manager.Login when Login made the call.  A GetValidToken that returns nil
\* ends Login with nil, one that returns an error sends Login on to the
\* interactive flow; the result of SaveTokens after the flow ends Login.
ReturnToCaller(p, res) ==
    IF p = "own" /\ aPc = "valid"
    THEN /\ aPc' = IF res.err = "" THEN "returned" ELSE "flow"
         /\ UNCHANGED <<aForce, aBefore, aFlows, aResp, aErr, aCalls>>
    ELSE IF p = "own" /\ aPc = "save"
    THEN /\ aPc' = "returned"
         /\ aErr' = IF res.err = NilError THEN "" ELSE "saving tokens"
         /\ UNCHANGED <<aForce, aBefore, aFlows, aResp, aCalls>>
    ELSE UNCHANGED loginVars

InitTokens ==
    /\ InitRun
    /\ dLines = <<>> /\ dLast = "" /\ dOpen = TRUE
    /\ dOut = Unset /\ dNew = <<>> /\ dPhase = "off"
    /\ StoreOff
    /\ RetryOff
    /\ HashOff
    /\ ScanOff
    /\ LoginOff
    /\ RaceOff
    /\ PollOff
    /\ tKeychain = EmptyKeychain
    /\ tFile = NoTokenFile
    /\ tNow = 0
    /\ tIssued = 0
    /\ tTouched = TRUE
    /\ tRes = [op |-> "NewTokenStore"]
    /\ tCall = [p \in Procs |-> Rest(p)]
    /\ \E cond \in ConditionsOf("Get", "access_token") :
          /\ tPrimary = [p \in Procs |-> IF p = "own"
                                         THEN NewTokenStore(EmptyKeychain, cond).primary
                                         ELSE TRUE]
          /\ tUsingFile = [p \in Procs |-> ~tPrimary[p]]

\* A command starts: NewManager calls NewTokenStore.
StartProcess(cond) ==
    /\ tCall["own"].pc = "idle"
    /\ tRes.op # "NewTokenStore"
    /\ SetStore("own", NewTokenStore(tKeychain, cond))
    /\ Took("own", TRUE, [op |-> "NewTokenStore"])
    /\ UNCHANGED <<tKeychain, tFile, tNow, tIssued, tCall, runVars, deltaVars, storeVars, retryVars,
                   hashVars, scanVars, loginVars, raceVars, pollVars>>

\* A command starts in another process: `login --force` or `logout`.
OtherStarts(command, cond) ==
    /\ tCall["other"].pc = "off"
    /\ SetStore("other", NewTokenStore(tKeychain, cond))
    /\ tCall' = Calls("other", [Idle EXCEPT !.pc = IF command = "login" THEN "flow"
                                                   ELSE "logout"], FALSE)
    /\ Took("other", TRUE, [op |-> "NewTokenStore"])
    /\ UNCHANGED <<tKeychain, tFile, tNow, tIssued, runVars, deltaVars, storeVars, retryVars,
                   hashVars, scanVars, loginVars, raceVars, pollVars>>

\* StartAuthFlow has returned tokens to Manager.Login, which calls SaveTokens.
FlowReturns(p) ==
    /\ tIssued < MaxGrants /\ tIssued < Len(AccessTokens)
    /\ tCall' = Calls(p, [Idle EXCEPT !.pc = "save", !.ret = "login",
                                      !.grant = TokenGrant(AccessTokens[tIssued + 1],
                                                           RefreshTokens[tIssued + 1],
                                                           TokenLifetime)], FALSE)
    /\ tIssued' = tIssued + 1
    /\ Took(p, FALSE, Working)
    /\ UNCHANGED <<tPrimary, tUsingFile, tKeychain, tFile, tNow, runVars, deltaVars, storeVars, retryVars,
                   hashVars, scanVars, loginVars, raceVars, pollVars>>

LoginSaves == tCall["own"].pc = "idle" /\ FlowReturns("own")

OtherLogin == tCall["other"].pc = "flow" /\ FlowReturns("other")

\* FallbackStore.SaveTokens: the primary's keyring.Set of the access token.
SaveAccessToken(p, cond) ==
    /\ tCall[p].pc = "save" /\ tPrimary[p]
    /\ LET r == KeychainSaveAccessToken(tKeychain, cond, tCall[p].grant.AccessToken)
       IN  /\ tKeychain' = r.kc
           /\ SetStore(p, AfterPrimary(StoreOf(p), r.err))
           /\ tCall' = Calls(p, [tCall[p] EXCEPT
                                    !.pc = IF r.err = NilError THEN "save_meta"
                                           ELSE "save_file",
                                    !.fallback = (r.err # NilError)], FALSE)
    /\ Took(p, TRUE, Working)
    /\ UNCHANGED <<tFile, tNow, tIssued, runVars, deltaVars, storeVars, retryVars,
                   hashVars, scanVars, loginVars, raceVars, pollVars>>

\* FallbackStore.SaveTokens: the primary's keyring.Set of the token meta.
SaveTokenMeta(p, cond) ==
    /\ tCall[p].pc = "save_meta"
    /\ LET r == KeychainSaveTokenMeta(tKeychain, cond, tCall[p].grant, tNow)
       IN  /\ tKeychain' = r.kc
           /\ SetStore(p, AfterPrimary(StoreOf(p), r.err))
           /\ tCall' = Calls(p, [tCall[p] EXCEPT !.pc = "save_file",
                                                 !.fallback = (r.err # NilError)], FALSE)
    /\ Took(p, TRUE, Working)
    /\ UNCHANGED <<tFile, tNow, tIssued, runVars, deltaVars, storeVars, retryVars,
                   hashVars, scanVars, loginVars, raceVars, pollVars>>

\* FallbackStore.SaveTokens: the secondary computes the expiry and opens the
\* token file.  Its result is the result of SaveTokens unless the primary has
\* saved the tokens.
SaveFileOpen(p, disk) ==
    /\ tCall[p].pc = "save_file" \/ (tCall[p].pc = "save" /\ ~tPrimary[p])
    /\ LET call == tCall[p]
           fallback == IF call.pc = "save" THEN TRUE ELSE call.fallback
           f == FileOpen(tFile, disk)
       IN  /\ tFile' = f.file
           /\ IF f.err # NilError
              THEN /\ tCall' = Calls(p, Rest(p), FALSE)
                   /\ Took(p, FALSE, SaveResult(call, IF fallback THEN f.err ELSE NilError))
                   /\ ReturnToCaller(p, SaveResult(call, IF fallback THEN f.err ELSE NilError))
                   /\ EndCommand(p)
              ELSE /\ tCall' = Calls(p, [call EXCEPT !.pc = "save_write",
                                                    !.fallback = fallback,
                                                    !.stamp = tNow + call.grant.ExpiresIn,
                                                    !.fd = "linked"], FALSE)
                   /\ Took(p, FALSE, Working)
                   /\ UNCHANGED <<tPrimary, tUsingFile, loginVars>>
    /\ UNCHANGED <<tKeychain, tNow, tIssued, runVars, deltaVars, storeVars, retryVars,
                   hashVars, scanVars, raceVars, pollVars>>

\* FallbackStore.SaveTokens: the secondary's write ends, and SaveTokens returns.
SaveFileWrite(p) ==
    /\ tCall[p].pc = "save_write"
    /\ \E outcome \in WriteOutcomes(tFile, tCall[p].fd) :
          LET call == tCall[p]
              f == FileWrite(tFile, call.fd, outcome,
                             TokenFile(call.grant.AccessToken, call.grant.RefreshToken,
                                       call.stamp))
          IN  /\ tFile' = f.file
              /\ Took(p, FALSE, SaveResult(call, IF call.fallback THEN f.err ELSE NilError))
              /\ ReturnToCaller(p, SaveResult(call, IF call.fallback THEN f.err
                                                     ELSE NilError))
    /\ tCall' = Calls(p, Rest(p), FALSE)
    /\ EndCommand(p)
    /\ UNCHANGED <<tKeychain, tNow, tIssued, runVars, deltaVars, storeVars, retryVars,
                   hashVars, scanVars, raceVars, pollVars>>

\* Manager.GetValidToken is called: FallbackStore.IsTokenExpired asks the
\* primary.
ExpiredPrimary(cond) ==
    /\ tCall["own"].pc = "idle" /\ tPrimary["own"]
    /\ tCall' = Calls("own", IF KeychainIsTokenExpired(tKeychain, cond, tNow)
                             THEN [Idle EXCEPT !.pc = "expired_file"]
                             ELSE [Idle EXCEPT !.pc = "access", !.checked = tNow], FALSE)
    /\ Took("own", TRUE, Working)
    /\ UNCHANGED <<tPrimary, tUsingFile, tKeychain, tFile, tNow, tIssued, runVars, deltaVars, storeVars, retryVars,
                   hashVars, scanVars, loginVars, raceVars, pollVars>>

\* FallbackStore.IsTokenExpired asks the secondary.
ExpiredSecondary ==
    /\ tCall["own"].pc = "expired_file" \/ (tCall["own"].pc = "idle" /\ ~tPrimary["own"])
    /\ tCall' = Calls("own", IF FileIsTokenExpired(tFile, tNow)
                             THEN [Idle EXCEPT !.pc = "refresh"]
                             ELSE [Idle EXCEPT !.pc = "access", !.checked = tNow], FALSE)
    /\ Took("own", FALSE, Working)
    /\ UNCHANGED <<tPrimary, tUsingFile, tKeychain, tFile, tNow, tIssued, runVars, deltaVars, storeVars, retryVars,
                   hashVars, scanVars, loginVars, raceVars, pollVars>>

\* FallbackStore.GetAccessToken asks the primary.
AccessPrimary(cond) ==
    /\ tCall["own"].pc = "access" /\ tPrimary["own"]
    /\ LET r == KeychainGetAccessToken(tKeychain, cond)
       IN  /\ SetStore("own", AfterPrimary(StoreOf("own"), r.err))
           /\ IF r.err = NilError
              THEN /\ tCall' = Calls("own", Idle, FALSE)
                   /\ Took("own", TRUE, TokenResult(r.token, "", "keychain",
                                                 tCall["own"].checked))
                   /\ ReturnToCaller("own", TokenResult(r.token, "", "keychain",
                                                        tCall["own"].checked))
              ELSE /\ tCall' = Calls("own", [tCall["own"] EXCEPT !.pc = "access_file"],
                                     FALSE)
                   /\ Took("own", TRUE, Working)
                   /\ UNCHANGED loginVars
    /\ UNCHANGED <<tKeychain, tFile, tNow, tIssued, runVars, deltaVars, storeVars, retryVars,
                   hashVars, scanVars, raceVars, pollVars>>

\* FallbackStore.GetAccessToken asks the secondary.
AccessSecondary ==
    /\ tCall["own"].pc = "access_file" \/ (tCall["own"].pc = "access" /\ ~tPrimary["own"])
    /\ LET r == FileGetAccessToken(tFile)
       IN  IF r.err = NilError
           THEN /\ tCall' = Calls("own", Idle, FALSE)
                /\ Took("own", FALSE, TokenResult(r.token, "", "file", tCall["own"].checked))
                /\ ReturnToCaller("own", TokenResult(r.token, "", "file",
                                                     tCall["own"].checked))
           ELSE /\ tCall' = Calls("own", [Idle EXCEPT !.pc = "refresh"], FALSE)
                /\ Took("own", FALSE, Working)
                /\ UNCHANGED loginVars
    /\ UNCHANGED <<tPrimary, tUsingFile, tKeychain, tFile, tNow, tIssued, runVars, deltaVars, storeVars, retryVars,
                   hashVars, scanVars, raceVars, pollVars>>

\* FallbackStore.GetRefreshToken asks the primary; with a refresh token
\* Manager.GetValidToken calls pkceFlow.RefreshToken.
RefreshPrimary(cond) ==
    /\ tCall["own"].pc = "refresh" /\ tPrimary["own"]
    /\ LET r == KeychainGetRefreshToken(tKeychain, cond)
       IN  /\ SetStore("own", AfterPrimary(StoreOf("own"), r.err))
           /\ tCall' = Calls("own", IF r.err = NilError
                                    THEN [Idle EXCEPT !.pc = "wait", !.sent = r.token]
                                    ELSE [Idle EXCEPT !.pc = "refresh_file"], FALSE)
    /\ Took("own", TRUE, Working)
    /\ UNCHANGED <<tKeychain, tFile, tNow, tIssued, runVars, deltaVars, storeVars, retryVars,
                   hashVars, scanVars, loginVars, raceVars, pollVars>>

\* FallbackStore.GetRefreshToken asks the secondary.
RefreshSecondary ==
    /\ tCall["own"].pc = "refresh_file" \/ (tCall["own"].pc = "refresh" /\ ~tPrimary["own"])
    /\ LET r == FileGetRefreshToken(tFile)
       IN  IF r.err = NilError
           THEN /\ tCall' = Calls("own", [Idle EXCEPT !.pc = "wait", !.sent = r.token], FALSE)
                /\ Took("own", FALSE, Working)
                /\ UNCHANGED loginVars
           ELSE /\ tCall' = Calls("own", Idle, FALSE)
                /\ Took("own", FALSE, TokenResult("", "no refresh token", "", 0))
                /\ ReturnToCaller("own", TokenResult("", "no refresh token", "", 0))
    /\ UNCHANGED <<tPrimary, tUsingFile, tKeychain, tFile, tNow, tIssued, runVars, deltaVars, storeVars, retryVars,
                   hashVars, scanVars, raceVars, pollVars>>

\* pkceFlow.RefreshToken returns: Manager.GetValidToken returns the error, or
\* calls SaveTokens.  Every answer with tokens is one more response issued.
RefreshReturns ==
    /\ tCall["own"].pc = "wait"
    /\ \E refresh \in RefreshOutcomes(tIssued + 1) :
          IF refresh.err
          THEN /\ tCall' = Calls("own", Idle, FALSE)
               /\ Took("own", FALSE, TokenResult("", "refresh failed", "", 0))
               /\ ReturnToCaller("own", TokenResult("", "refresh failed", "", 0))
               /\ tIssued' = tIssued
          ELSE /\ tCall' = Calls("own", [Idle EXCEPT !.pc = "save", !.ret = "refresh",
                                                     !.grant = refresh.resp], FALSE)
               /\ Took("own", FALSE, Working)
               /\ UNCHANGED loginVars
               /\ tIssued' = tIssued + 1
    /\ UNCHANGED <<tPrimary, tUsingFile, tKeychain, tFile, tNow, runVars, deltaVars, storeVars, retryVars,
                   hashVars, scanVars, raceVars, pollVars>>

\* FallbackStore.GetTokenMeta asks the primary.
MetaPrimary(cond) ==
    /\ tCall["own"].pc = "idle" /\ tPrimary["own"]
    /\ LET r == KeychainGetTokenMeta(tKeychain, cond)
       IN  /\ SetStore("own", AfterPrimary(StoreOf("own"), r.err))
           /\ IF r.err = NilError
              THEN /\ tCall' = Calls("own", Idle, FALSE)
                   /\ Took("own", TRUE, [op |-> "GetTokenMeta", err |-> NilError])
              ELSE /\ tCall' = Calls("own", [Idle EXCEPT !.pc = "meta_file"], FALSE)
                   /\ Took("own", TRUE, Working)
    /\ UNCHANGED <<tKeychain, tFile, tNow, tIssued, runVars, deltaVars, storeVars, retryVars,
                   hashVars, scanVars, loginVars, raceVars, pollVars>>

\* FallbackStore.GetTokenMeta asks the secondary.
MetaSecondary ==
    /\ tCall["own"].pc = "meta_file" \/ (tCall["own"].pc = "idle" /\ ~tPrimary["own"])
    /\ tCall' = Calls("own", Idle, FALSE)
    /\ Took("own", FALSE, [op |-> "GetTokenMeta", err |-> FileGetTokenMeta(tFile).err])
    /\ UNCHANGED <<tPrimary, tUsingFile, tKeychain, tFile, tNow, tIssued, runVars, deltaVars, storeVars, retryVars,
                   hashVars, scanVars, loginVars, raceVars, pollVars>>

\* Manager.Logout: FallbackStore.Clear; the primary deletes the access token
\* and then the token meta, with the results ignored.
ClearAccessToken(p, cond) ==
    /\ tCall[p].pc = LogoutAt(p) /\ tPrimary[p]
    /\ tKeychain' = KeyringDelete(tKeychain, cond, "access_token")
    /\ tCall' = Calls(p, [Idle EXCEPT !.pc = "clear_meta"], FALSE)
    /\ Took(p, TRUE, Working)
    /\ UNCHANGED <<tPrimary, tUsingFile, tFile, tNow, tIssued, runVars, deltaVars, storeVars, retryVars,
                   hashVars, scanVars, loginVars, raceVars, pollVars>>

ClearTokenMeta(p, cond) ==
    /\ tCall[p].pc = "clear_meta"
    /\ tKeychain' = KeyringDelete(tKeychain, cond, "token_meta")
    /\ tCall' = Calls(p, [Idle EXCEPT !.pc = "clear_file"], FALSE)
    /\ Took(p, TRUE, Working)
    /\ UNCHANGED <<tPrimary, tUsingFile, tFile, tNow, tIssued, runVars, deltaVars, storeVars, retryVars,
                   hashVars, scanVars, loginVars, raceVars, pollVars>>

\* FallbackStore.Clear: the secondary removes the token file, and Clear
\* returns.
ClearFile(p, disk) ==
    /\ tCall[p].pc = "clear_file" \/ (tCall[p].pc = LogoutAt(p) /\ ~tPrimary[p])
    /\ LET f == FileClear(tFile, disk)
       IN  /\ tFile' = f.file
           /\ tCall' = Calls(p, Rest(p), f.err = NilError)
           /\ Took(p, FALSE, [op |-> "Clear", err |-> f.err])
    /\ EndCommand(p)
    /\ UNCHANGED <<tKeychain, tNow, tIssued, runVars, deltaVars, storeVars, retryVars,
                   hashVars, scanVars, loginVars, raceVars, pollVars>>

\* Time passes.
Tick(d) ==
    /\ tNow + d <= MaxClock
    /\ tNow' = tNow + d
    /\ tTouched' = FALSE
    /\ tRes' = Working
    /\ UNCHANGED <<tPrimary, tUsingFile, tKeychain, tFile, tIssued, tCall,
                   runVars, deltaVars, storeVars, retryVars,
                   hashVars, scanVars, loginVars, raceVars, pollVars>>

NextTokens ==
    \/ \E cond \in ConditionsOf("Get", "access_token") : StartProcess(cond)
    \/ \E command \in {"login", "logout"}, cond \in ConditionsOf("Get", "access_token") :
          OtherStarts(command, cond)
    \/ LoginSaves
    \/ OtherLogin
    \/ \E p \in Procs, cond \in ConditionsOf("Set", "access_token") : SaveAccessToken(p, cond)
    \/ \E p \in Procs, cond \in ConditionsOf("Set", "token_meta") : SaveTokenMeta(p, cond)
    \/ \E p \in Procs, disk \in {"ok", "refused"} : SaveFileOpen(p, disk)
    \/ \E p \in Procs : SaveFileWrite(p)
    \/ \E cond \in ConditionsOf("Get", "token_meta") : ExpiredPrimary(cond)
    \/ ExpiredSecondary
    \/ \E cond \in ConditionsOf("Get", "access_token") : AccessPrimary(cond)
    \/ AccessSecondary
    \/ \E cond \in ConditionsOf("Get", "token_meta") : RefreshPrimary(cond)
    \/ RefreshSecondary
    \/ RefreshReturns
    \/ \E cond \in ConditionsOf("Get", "token_meta") : MetaPrimary(cond)
    \/ MetaSecondary
    \/ \E p \in Procs, cond \in ConditionsOf("Delete", "access_token") : ClearAccessToken(p, cond)
    \/ \E p \in Procs, cond \in ConditionsOf("Delete", "token_meta") : ClearTokenMeta(p, cond)
    \/ \E p \in Procs, disk \in {"ok", "refused"} : ClearFile(p, disk)
    \/ \E d \in TimeSteps : Tick(d)

SpecTokens == InitTokens /\ [][NextTokens]_vars

----------------------------------------------------------------------------
\* Manager.Login on the credential store.  The process of a login command
\* builds its store and calls Login, which asks IsAuthenticated and
\* GetValidToken, waits for the interactive flow and saves its tokens; the
\* keyring and the disk can fail at every call, and time passes between the
\* calls.  Every call of the keyring and of the file system is a step, taken
\* by the actions of the section above where Login calls GetValidToken and
\* SaveTokens.  Commands of other processes on the same keychain and token
\* file are the subject of the section above.

InitLogin ==
    /\ InitRun
    /\ dLines = <<>> /\ dLast = "" /\ dOpen = TRUE
    /\ dOut = Unset /\ dNew = <<>> /\ dPhase = "off"
    /\ StoreOff
    /\ RetryOff
    /\ HashOff
    /\ ScanOff
    /\ RaceOff
    /\ PollOff
    /\ aPc = "idle"
    /\ aForce = FALSE
    /\ aBefore = Unset
    /\ aFlows = 0
    /\ aResp = NoGrant
    /\ aErr = ""
    /\ aCalls = 0
    /\ tKeychain = EmptyKeychain
    /\ tFile = NoTokenFile
    /\ tNow = 0
    /\ tIssued = 0
    /\ tTouched = FALSE
    /\ tRes = Working
    /\ tCall = [p \in Procs |-> Rest(p)]
    /\ tPrimary = [p \in Procs |-> NoStore.primary]
    /\ tUsingFile = [p \in Procs |-> NoStore.usingFile]

\* A login command starts: NewManager calls NewTokenStore.
NewManager(cond) ==
    /\ aPc \in {"idle", "returned"}
    /\ aCalls < MaxLogins
    /\ aCalls' = aCalls + 1
    /\ aPc' = "new"
    /\ aForce' = FALSE
    /\ aBefore' = Unset
    /\ aFlows' = 0
    /\ aResp' = NoGrant
    /\ aErr' = ""
    /\ SetStore("own", NewTokenStore(tKeychain, cond))
    /\ Took("own", TRUE, [op |-> "NewTokenStore"])
    /\ UNCHANGED <<tKeychain, tFile, tNow, tIssued, tCall, runVars, deltaVars, storeVars, retryVars,
                   hashVars, scanVars, raceVars, pollVars>>

\* Manager.Login is called: with force it goes to the interactive flow,
\* without it asks IsAuthenticated first.
LoginCall(force) ==
    /\ aPc = "new"
    /\ aForce' = force
    /\ aBefore' = [kc |-> tKeychain, file |-> tFile, now |-> tNow]
    /\ aPc' = IF force THEN "flow" ELSE "auth"
    /\ tCall' = Calls("own", IF force THEN Idle ELSE [Idle EXCEPT !.pc = "auth_access"],
                      FALSE)
    /\ Took("own", FALSE, Working)
    /\ UNCHANGED <<aFlows, aResp, aErr, aCalls, tPrimary, tUsingFile, tKeychain, tFile,
                   tNow, tIssued, runVars, deltaVars, storeVars, retryVars,
                   hashVars, scanVars, raceVars, pollVars>>

\* Manager.IsAuthenticated: FallbackStore.GetAccessToken asks the primary.
AuthAccessPrimary(cond) ==
    /\ tCall["own"].pc = "auth_access" /\ tPrimary["own"]
    /\ LET r == KeychainGetAccessToken(tKeychain, cond)
       IN  /\ SetStore("own", AfterPrimary(StoreOf("own"), r.err))
           /\ tCall' = Calls("own", [Idle EXCEPT !.pc = IF r.err = NilError
                                                        THEN "auth_expired"
                                                        ELSE "auth_access_file"], FALSE)
    /\ Took("own", TRUE, Working)
    /\ UNCHANGED <<loginVars, tKeychain, tFile, tNow, tIssued, runVars, deltaVars, storeVars, retryVars,
                   hashVars, scanVars, raceVars, pollVars>>

\* Manager.IsAuthenticated: FallbackStore.GetAccessToken asks the secondary;
\* without an access token IsAuthenticated is false and Login goes to the
\* interactive flow.
AuthAccessSecondary ==
    /\ \/ tCall["own"].pc = "auth_access_file"
       \/ (tCall["own"].pc = "auth_access" /\ ~tPrimary["own"])
    /\ IF FileGetAccessToken(tFile).err = NilError
       THEN /\ tCall' = Calls("own", [Idle EXCEPT !.pc = "auth_expired"], FALSE)
            /\ aPc' = aPc
       ELSE /\ tCall' = Calls("own", Idle, FALSE)
            /\ aPc' = "flow"
    /\ Took("own", FALSE, Working)
    /\ UNCHANGED <<aForce, aBefore, aFlows, aResp, aErr, aCalls, tPrimary, tUsingFile,
                   tKeychain, tFile, tNow, tIssued, runVars, deltaVars, storeVars, retryVars,
                   hashVars, scanVars, raceVars, pollVars>>

\* Manager.IsAuthenticated: FallbackStore.IsTokenExpired asks the primary; a
\* token that is not expired makes IsAuthenticated true, and Login calls
\* GetValidToken.
AuthExpiredPrimary(cond) ==
    /\ tCall["own"].pc = "auth_expired" /\ tPrimary["own"]
    /\ IF KeychainIsTokenExpired(tKeychain, cond, tNow)
       THEN /\ tCall' = Calls("own", [Idle EXCEPT !.pc = "auth_expired_file"], FALSE)
            /\ aPc' = aPc
       ELSE /\ tCall' = Calls("own", Idle, FALSE)
            /\ aPc' = "valid"
    /\ Took("own", TRUE, Working)
    /\ UNCHANGED <<aForce, aBefore, aFlows, aResp, aErr, aCalls, tPrimary, tUsingFile,
                   tKeychain, tFile, tNow, tIssued, runVars, deltaVars, storeVars, retryVars,
                   hashVars, scanVars, raceVars, pollVars>>

\* Manager.IsAuthenticated: FallbackStore.IsTokenExpired asks the secondary.
AuthExpiredSecondary ==
    /\ \/ tCall["own"].pc = "auth_expired_file"
       \/ (tCall["own"].pc = "auth_expired" /\ ~tPrimary["own"])
    /\ aPc' = IF FileIsTokenExpired(tFile, tNow) THEN "flow" ELSE "valid"
    /\ tCall' = Calls("own", Idle, FALSE)
    /\ Took("own", FALSE, Working)
    /\ UNCHANGED <<aForce, aBefore, aFlows, aResp, aErr, aCalls, tPrimary, tUsingFile,
                   tKeychain, tFile, tNow, tIssued, runVars, deltaVars, storeVars, retryVars,
                   hashVars, scanVars, raceVars, pollVars>>

\* pkceFlow.StartAuthFlow returns to Manager.Login: an error, which Login
\* returns, or the tokens of one more response, with which Login calls
\* SaveTokens.
LoginFlow ==
    /\ aPc = "flow"
    /\ aFlows' = aFlows + 1
    /\ \E ok \in BOOLEAN :
          IF ok /\ tIssued < MaxGrants /\ tIssued < Len(AccessTokens)
          THEN /\ aResp' = TokenGrant(AccessTokens[tIssued + 1], RefreshTokens[tIssued + 1],
                                      TokenLifetime)
               /\ aErr' = aErr
               /\ aPc' = "save"
               /\ tCall' = Calls("own", [Idle EXCEPT !.pc = "save", !.ret = "login",
                                                     !.grant = aResp'], FALSE)
               /\ tIssued' = tIssued + 1
          ELSE /\ aResp' = aResp
               /\ aErr' = "authentication failed"
               /\ aPc' = "returned"
               /\ tCall' = tCall
               /\ tIssued' = tIssued
    /\ Took("own", FALSE, Working)
    /\ UNCHANGED <<aForce, aBefore, aCalls, tPrimary, tUsingFile, tKeychain, tFile, tNow,
                   runVars, deltaVars, storeVars, retryVars,
                   hashVars, scanVars, raceVars, pollVars>>

NextLogin ==
    \/ \E cond \in ConditionsOf("Get", "access_token") : NewManager(cond)
    \/ \E force \in BOOLEAN : LoginCall(force)
    \/ \E cond \in ConditionsOf("Get", "access_token") : AuthAccessPrimary(cond)
    \/ AuthAccessSecondary
    \/ \E cond \in ConditionsOf("Get", "token_meta") : AuthExpiredPrimary(cond)
    \/ AuthExpiredSecondary
    \/ \E cond \in ConditionsOf("Get", "token_meta") : aPc = "valid" /\ ExpiredPrimary(cond)
    \/ (aPc = "valid" /\ ExpiredSecondary)
    \/ \E cond \in ConditionsOf("Get", "access_token") : AccessPrimary(cond)
    \/ AccessSecondary
    \/ \E cond \in ConditionsOf("Get", "token_meta") : RefreshPrimary(cond)
    \/ RefreshSecondary
    \/ RefreshReturns
    \/ LoginFlow
    \/ \E cond \in ConditionsOf("Set", "access_token") : SaveAccessToken("own", cond)
    \/ \E cond \in ConditionsOf("Set", "token_meta") : SaveTokenMeta("own", cond)
    \/ \E disk \in {"ok", "refused"} : SaveFileOpen("own", disk)
    \/ SaveFileWrite("own")
    \/ \E d \in TimeSteps : Tick(d)

SpecLogin == InitLogin /\ [][NextLogin]_vars

----------------------------------------------------------------------------
\* Claims about Manager.Login (SpecLogin).

\* Some store holds an access token together with an expiry that is more
\* than 60 seconds after now: the two items of the keychain, or the token file.
ValidTokensIn(kc, file, now) ==
    \/ /\ kc.access_token.present
       /\ kc.token_meta.present
       /\ now < kc.token_meta.value.ExpiresAt - 60
    \/ /\ file.kind = "tokens"
       /\ now < file.ExpiresAt - 60

\* When Login was called a stored, non-expired access token existed.
HadValidTokens == ValidTokensIn(aBefore.kc, aBefore.file, aBefore.now)

\* The token file, which every store reads whatever the keyring does, held
\* tokens at the call that are still not expired at the time now.
KeptValidTokens(now) == ValidTokensIn(EmptyKeychain, aBefore.file, now)

\* The access token that the store Login saved to returns from GetAccessToken
\* when the keyring works: the one in the keychain if the store has a primary
\* and the keychain holds one, else the one in the token file.
StoredAccessToken ==
    IF tPrimary["own"] /\ KeychainGetAccessToken(tKeychain, "up").err = NilError
    THEN KeychainGetAccessToken(tKeychain, "up").token
    ELSE FileGetAccessToken(tFile).token

\* C29: when Login returns it has called StartAuthFlow at most once, and it
\* has called it if force was set or no store held a non-expired access token
\* at the call.  A call without force, made with non-expired tokens in the
\* token file that are still not expired at the return, returns nil without
\* the flow and with keychain and token file as they were.  A call that
\* returns nil after the flow leaves the access token of the flow as the one
\* its store returns.
C29_LoginReauthenticatesWhenNeeded ==
    [][ (aPc # "returned" /\ aPc' = "returned") =>
           /\ aFlows' <= 1
           /\ (aForce \/ ~HadValidTokens) => aFlows' = 1
           /\ (~aForce /\ KeptValidTokens(tNow')) =>
                 /\ aFlows' = 0
                 /\ aErr' = ""
                 /\ tKeychain' = aBefore.kc
                 /\ tFile' = aBefore.file
           /\ (aFlows' = 1 /\ aErr' = "") => StoredAccessToken' = aResp'.AccessToken ]_vars

\* The state the failing call ends in: a forced Login has returned nil after
\* the flow handed out access-2, the token file holds access-2 and the keychain
\* still holds access-1, which is the token the store of Login returns.
C29_StaleKeychain ==
    /\ aPc = "returned"
    /\ tPrimary["own"]
    /\ aForce
    /\ aFlows = 1
    /\ aErr = ""
    /\ aResp.AccessToken = "access-2"
    /\ tKeychain.access_token.present
    /\ tKeychain.access_token.value = "access-1"
    /\ tFile.kind = "tokens"
    /\ tFile.AccessToken = "access-2"
    /\ StoredAccessToken = "access-1"

\* Login without force has returned nil without the flow and with the stores
\* as they were.
C29_SkippedFlow ==
    /\ aPc = "returned"
    /\ ~aForce
    /\ aFlows = 0
    /\ aErr = ""
    /\ HadValidTokens
    /\ tKeychain = aBefore.kc
    /\ tFile = aBefore.file

----------------------------------------------------------------------------
\* Claims about the credential store (SpecTokens).

\* C35: when GetValidToken has returned a stored access token without a
\* refresh, the store the token was read from holds that token with an expiry
\* more than 60 seconds after the time at which the token was found not
\* expired.
C35_StoredTokenIsFresh ==
    (tRes.op = "GetValidToken" /\ tRes.err = "" /\ tRes.source # "refresh") =>
        IF tRes.source = "keychain"
        THEN /\ tKeychain.access_token.present
             /\ tKeychain.access_token.value = tRes.token
             /\ tKeychain.token_meta.present
             /\ tKeychain.token_meta.value.ExpiresAt - tRes.checked > 60
        ELSE /\ tFile.kind = "tokens"
             /\ tFile.AccessToken = tRes.token
             /\ tFile.ExpiresAt - tRes.checked > 60

\* What FallbackStore.GetRefreshToken returns to the process of the command
\* when it is called now, with the keyring working and nothing else going on.
RefreshTokenNow ==
    IF tPrimary["own"] /\ KeychainGetRefreshToken(tKeychain, "up").err = NilError
    THEN KeychainGetRefreshToken(tKeychain, "up")
    ELSE FileGetRefreshToken(tFile)

\* C36: after GetValidToken has refreshed the tokens and returned the new
\* access token, GetRefreshToken on the store, with the keyring working,
\* returns a refresh token.
C36_RefreshKeepsRefreshToken ==
    (tRes.op = "GetValidToken" /\ tRes.err = "" /\ tRes.source = "refresh") =>
        RefreshTokenNow.err = NilError

\* A step of process p: its call moves on.
Stepped(p) == tCall'[p].pc # tCall[p].pc

\* C39: in every process usingFile holds exactly when primary is nil; a store
\* whose primary is nil keeps it nil as long as its process lives, and no step
\* of that process calls the keyring or changes the keychain.
C39_FileModeIsOneWay ==
    /\ \A p \in Procs : tUsingFile[p] = ~tPrimary[p]
    /\ [][ \A p \in Procs :
              /\ tUsingFile'[p] = ~tPrimary'[p]
              /\ (~tPrimary[p] /\ tRes'.op # "NewTokenStore" /\ tCall'[p].pc # "off") =>
                    ~tPrimary'[p]
              /\ (~tPrimary[p] /\ tCall[p].pc # "off" /\ Stepped(p)) =>
                    /\ ~tTouched'
                    /\ tKeychain' = tKeychain ]_vars

\* A SaveTokens whose call of the keyring failed on the session bus has left
\* the store in file-only mode and has gone on to the token file, with the
\* keychain still holding the tokens of an earlier save.
C39_Witness ==
    /\ tTouched
    /\ tCall["own"].pc = "save_file"
    /\ tCall["own"].grant.AccessToken = "access-2"
    /\ ~tPrimary["own"] /\ tUsingFile["own"]
    /\ tKeychain.access_token.present
    /\ tKeychain.access_token.value = "access-1"

----------------------------------------------------------------------------
\* Claims about the normalisation of lines (SpecNormalize).

\* The lines of the file that give a message, in file order.
AcceptedLines == SelectSeq(hLines, LAMBDA line : YieldsStructured(line) \/ YieldsLegacy(line))

\* The parts of a content array with the type "text", and those of them whose
\* text is a string.
TextTypedParts(parts) == SelectSeq(parts, LAMBDA part : part.type = "text")
StringTextParts(parts) == SelectSeq(parts, LAMBDA part : part.type = "text" /\ part.hasText)

\* C37 as stated: the content of a message normalised from a structured line
\* is the string content verbatim, or for a content array the text of the
\* first part whose type is "text" (nothing when that part carries no string),
\* empty when no part has that type.
C37_Original ==
    (hPc = "delta" /\ ~hDelta.isNil) =>
        /\ Len(hDelta.Messages) = Len(AcceptedLines)
        /\ \A i \in DOMAIN hDelta.Messages :
              LET msg == AcceptedLines[i].Msg
              IN  YieldsStructured(AcceptedLines[i]) =>
                     hDelta.Messages[i].Content =
                        IF msg.parts = <<>> THEN msg.text
                        ELSE IF TextTypedParts(msg.parts) = <<>> THEN ""
                        ELSE TextTypedParts(msg.parts)[1].text

\* C37: the content of a message normalised from a structured line is the
\* string content verbatim, or for a content array the text of the first part
\* that has the type "text" and a string as its text, whatever parts come
\* before and after it; it is empty when the array has no such part.
C37_FirstStringTextPart ==
    (hPc = "delta" /\ ~hDelta.isNil) =>
        /\ Len(hDelta.Messages) = Len(AcceptedLines)
        /\ \A i \in DOMAIN hDelta.Messages :
              LET msg == AcceptedLines[i].Msg
              IN  YieldsStructured(AcceptedLines[i]) =>
                     hDelta.Messages[i].Content =
                        IF msg.parts = <<>> THEN msg.text
                        ELSE IF StringTextParts(msg.parts) = <<>> THEN ""
                        ELSE StringTextParts(msg.parts)[1].text

\* A file was read whose lines hold a text part without a string before a
\* text part, two text parts among other parts, and no text part at all.
C37_Witness ==
    /\ hPc = "delta"
    /\ Len(hLines) = 3
    /\ hLines[1].UUID = "n5" /\ hLines[2].UUID = "n3" /\ hLines[3].UUID = "n4"
    /\ ~hDelta.isNil
    /\ [i \in DOMAIN hDelta.Messages |-> hDelta.Messages[i].Content] = <<"second", "yo", "">>

\* C38: each line gives at most one message, and gives one exactly when it
\* yields a uuid and a role under the structured or the legacy shape.  The
\* message is the structured reading whenever that reading has a uuid and a
\* role, also when the legacy reading has them too; otherwise it is the legacy
\* reading of the same line.  The hash input holds the same messages.
C38_StructuredThenLegacy ==
    (hPc = "delta") =>
        /\ hDelta.isNil <=> AcceptedLines = <<>>
        /\ \A k \in DOMAIN hLines : Len(ParseLine(hLines[k])) <= 1
        /\ ~hDelta.isNil =>
              /\ Len(hDelta.Messages) = Len(AcceptedLines)
              /\ Len(hDelta.Messages) <= Len(hLines)
              /\ ~hFirst.err
              /\ Len(hFirst.hash[2]) = 2 * Len(hDelta.Messages) + 1
              /\ \A i \in DOMAIN hDelta.Messages :
                    LET line == AcceptedLines[i]
                        m == hDelta.Messages[i]
                    IN  /\ m.UUID = line.UUID
                        /\ hFirst.hash[2][2 * i + 1] = MarshalMessage(m)
                        /\ IF YieldsStructured(line)
                           THEN /\ m.Role = line.Msg.role
                                /\ m.Type = line.Type
                                /\ m.Model = line.Msg.model
                                /\ m.Tokens = 0
                                /\ line.Msg.parts = <<>> => m.Content = line.Msg.text
                           ELSE /\ m.Role = line.Role
                                /\ m.Content = line.Content
                                /\ m.Model = line.Model
                                /\ m.Tokens = line.Tokens

\* A file was read with a line that has a role only outside its message
\* object, a line acceptable under both shapes, and a line without a uuid: the
\* first gave its legacy reading, the second its structured one, the third
\* nothing.
C38_Witness ==
    /\ hPc = "delta"
    /\ Len(hLines) = 3
    /\ hLines[1].UUID = "n6" /\ hLines[2].UUID = "n7" /\ hLines[3].UUID = ""
    /\ ~hDelta.isNil
    /\ Len(hDelta.Messages) = 2
    /\ hDelta.Messages[1].Role = "user" /\ hDelta.Messages[1].Content = "flat"
    /\ hDelta.Messages[2].Role = "assistant" /\ hDelta.Messages[2].Content = "inner"

\* Errors of a response after which PollForToken goes round again.
PendingErrors == {"authorization_pending", "slow_down"}

\* The polls made so far all got a pending or slow_down answer.
AllPending(polls) ==
    \A k \in DOMAIN polls : polls[k] # ExchangeError /\ polls[k].Error \in PendingErrors

\* C40 as stated: a call whose context is done has ended with an error and
\* without a token.
C40_Original ==
    (oPc = "done" /\ oDone) => (oRes.token = NoToken /\ oRes.err # "")

\* C40: while PollForToken runs, every answer so far carried
\* authorization_pending or slow_down; when it has returned, every answer but
\* the last did, and it returned the last response as the token exactly when
\* that response has no error, and an error without a token otherwise; when
\* it returned because its select found the context done, every answer was a
\* pending one.  A select that finds the context done ends the call with an
\* error, at once or after one exchange that is refused; a response read
\* during an exchange is handled whether or not the context ended meanwhile.
\* After the return no poll is made and nothing changes.  The poll interval
\* is at least 5 seconds, equals the ticker's period, and stays the same on
\* every step except a slow_down answer, which raises it by 5 seconds.
C40_PollUntilAnswer ==
    /\ [](oPc \in {"select", "exchange", "refused"} =>
            /\ AllPending(oPolls)
            /\ oRes = Unset)
    /\ [](oPc \in {"select", "exchange", "refused", "done"} =>
            /\ oInterval >= MinPollInterval
            /\ oPeriod = oInterval)
    /\ [](oPc = "refused" => oDone)
    /\ [](oPc = "done" =>
            /\ oRes # Unset
            /\ (oRes.token = NoToken) <=> (oRes.err # "")
            /\ IF oRes.err = "context done"
               THEN oDone /\ AllPending(oPolls)
               ELSE /\ oPolls # <<>>
                    /\ AllPending(SubSeq(oPolls, 1, Len(oPolls) - 1))
                    /\ LET last == oPolls[Len(oPolls)]
                       IN  /\ last # ExchangeError => last.Error \notin PendingErrors
                           /\ IF last # ExchangeError /\ last.Error = ""
                              THEN oRes = PollResult(last, "")
                              ELSE oRes.token = NoToken)
    /\ [][/\ oPc = "done" => UNCHANGED pollVars
          /\ (oPc = "select" /\ oDone) =>
                \/ oPc' = "done" /\ oRes' = PollResult(NoToken, "context done")
                               /\ oPolls' = oPolls
                \/ oPc' = "refused" /\ UNCHANGED <<oPolls, oRes, oInterval>>
          /\ oPc = "refused" =>
                /\ oPc' = "done" /\ oRes'.token = NoToken /\ oRes'.err # ""
                /\ oPolls' = Append(oPolls, ExchangeError)
          /\ oPc \in {"select", "exchange", "refused"} =>
                /\ oInterval' >= oInterval
                /\ Len(oPolls') \in {Len(oPolls), Len(oPolls) + 1}
                /\ SubSeq(oPolls', 1, Len(oPolls)) = oPolls
                /\ oInterval' # oInterval =>
                      /\ oPc = "exchange" /\ oPc' = "select"
                      /\ oPolls'[Len(oPolls')].Error = "slow_down"
                      /\ oInterval' = oInterval + SlowDownStep
                /\ (oPc = "exchange" /\ oPc' = "select"
                        /\ oPolls'[Len(oPolls')].Error = "slow_down")
                      => oInterval' = oInterval + SlowDownStep
                /\ oPc' = "done" /\ oRes'.token # NoToken =>
                      /\ oPc = "exchange"
                      /\ oRes'.token = oPolls'[Len(oPolls')]]_vars

\* A call with interval 1 polled three times, pending, slow_down, then a
\* response without an error, and returned that response although its
\* context had ended during the last exchange; the interval went from 5 to
\* 10 seconds.
C40_Witness ==
    /\ oPc = "done"
    /\ Len(oPolls) = 3
    /\ oPolls[1] = DeviceTokenResponse("", "authorization_pending")
    /\ oPolls[2] = DeviceTokenResponse("", "slow_down")
    /\ oPolls[3] = DeviceTokenResponse("access-1", "")
    /\ oRes = PollResult(DeviceTokenResponse("access-1", ""), "")
    /\ oInterval = 10
    /\ oDone

====
